---- MODULE Spec2Model ----
(***************************************************************************)
(* Model of the PHIL analytics classification core                         *)
(* (src/phil_analytics/excel_data_processor.py, markdown_generator.py,     *)
(* pipeline.py): grouping of the scrubbed rows into the                    *)
(* EFT -> Payment -> Encounter -> Service hierarchy, encounter tagging,    *)
(* payment tagging, analytics and the EFT report.                          *)
(*                                                                         *)
(* A Python string is modelled as a sequence of tokens (each token a TLA+  *)
(* string): "22 (Reprocessed)" is <<"22", " ", "(", "Reprocessed", ")">>,  *)
(* "P1_C1" is <<"P1", "_", "C1">>.  Concatenation is \o, str.strip()       *)
(* removes leading and trailing " " tokens, `x in s` is a contiguous       *)
(* sub-sequence test and str.split(sep) cuts at the separator token.  The  *)
(* separators the code looks for (" ", "_", "(") are always tokens of      *)
(* their own, so the token operators agree with the character operators.   *)
(* A Python dict is a sequence of entries in insertion order.              *)
(***************************************************************************)
EXTENDS Integers, Sequences, FiniteSets, TLC

VARIABLES
    pc,                     \* position in PhilPipeline.run_full_pipeline
    file_rows,              \* the scrubbed table read by pd.read_excel
    payer_name,             \* ExcelDataObjectCreator.payer_name (file stem)
    df,                     \* ExcelDataObjectCreator.df
    missing_encounter_efts, \* ExcelDataObjectCreator.missing_encounter_efts
    data_object,            \* the EFT hierarchy (dict eft_num -> EFT)
    analytics_results,      \* AnalyticsProcessor.analytics_results
    report,                 \* content of {payer}_efts.md
    stats,                  \* MarkdownGenerator.generate_summary_stats result
    is_balanced,            \* {payment.is_balanced} of the balancing rules
    posting_results,        \* {payment.posted}, {payment.note}, {run.status}
    scrub_input,            \* the table given to DataCleaner.process_interest_and_pla_rows
    scrub_df                \* the df of process_interest_and_pla_rows, updated in place

vars == <<pc, file_rows, payer_name, df, missing_encounter_efts, data_object,
          analytics_results, report, stats, is_balanced, posting_results,
          scrub_input, scrub_df>>

(***************************************************************************)
(* String helpers                                                          *)
(***************************************************************************)
RECURSIVE LStrip(_)
LStrip(s) == IF s # <<>> /\ Head(s) = " " THEN LStrip(Tail(s)) ELSE s

RECURSIVE RStrip(_)
RStrip(s) ==
    IF s # <<>> /\ s[Len(s)] = " " THEN RStrip(SubSeq(s, 1, Len(s) - 1)) ELSE s

\* str.strip()
Strip(s) == RStrip(LStrip(s))

\* `sub in s` for strings
Contains(s, sub) ==
    \E i \in 1..(Len(s) - Len(sub) + 1) : SubSeq(s, i, i + Len(sub) - 1) = sub

\* s.startswith(p)
StartsWith(s, p) == Len(s) >= Len(p) /\ SubSeq(s, 1, Len(p)) = p

\* index of the first occurrence of token sep in s, 0 when absent
RECURSIVE FindTok(_, _, _)
FindTok(s, sep, i) ==
    IF i > Len(s) THEN 0 ELSE IF s[i] = sep THEN i ELSE FindTok(s, sep, i + 1)

\* s.split(sep): the list of parts
RECURSIVE Split(_, _)
Split(s, sep) ==
    LET i == FindTok(s, sep, 1) IN
    IF i = 0 THEN <<s>>
    ELSE <<SubSeq(s, 1, i - 1)>> \o Split(SubSeq(s, i + 1, Len(s)), sep)

\* s.split(sep, 1): at most two parts
Split1(s, sep) ==
    LET i == FindTok(s, sep, 1) IN
    IF i = 0 THEN <<s>>
    ELSE <<SubSeq(s, 1, i - 1), SubSeq(s, i + 1, Len(s))>>

\* s.replace(sub, ""), sub non-empty
RECURSIVE Remove(_, _)
Remove(s, sub) ==
    IF s = <<>> THEN <<>>
    ELSE IF StartsWith(s, sub) THEN Remove(SubSeq(s, Len(sub) + 1, Len(s)), sub)
    ELSE <<Head(s)>> \o Remove(Tail(s), sub)

\* `x in xs` for lists
InSeq(x, s) == \E i \in 1..Len(s) : s[i] = x

\* pandas Series.unique(): distinct values in order of first appearance
RECURSIVE Unique(_)
Unique(s) ==
    IF s = <<>> THEN <<>>
    ELSE LET r == Unique(SubSeq(s, 1, Len(s) - 1))
             l == s[Len(s)]
         IN IF InSeq(l, r) THEN r ELSE Append(r, l)

\* `if x and x.strip() != ''`
NonBlank(s) == s # <<>> /\ Strip(s) # <<>>

(***************************************************************************)
(* float(): the amounts that occur in the model, in cents.  Any other text *)
(* raises ValueError.                                                      *)
(***************************************************************************)
AmountTokens == {"0", "0.00", "12.50", "35.03", "80.00", "100.00"}

CentsOf(t) ==
    CASE t = "0" -> 0
      [] t = "0.00" -> 0
      [] t = "12.50" -> 1250
      [] t = "35.03" -> 3503
      [] t = "80.00" -> 8000
      [] t = "100.00" -> 10000

ParseFloat(s) ==
    LET t == Strip(s) IN
    IF Len(t) = 1 /\ t[1] \in AmountTokens
    THEN [ok |-> TRUE, cents |-> CentsOf(t[1])]
    ELSE [ok |-> FALSE, cents |-> 0]

(***************************************************************************)
(* ExcelDataObjectCreator                                                  *)
(***************************************************************************)
ENCOUNTER_NOT_FOUND == <<"Encounter not found.">>
PLA_TEXT == "Provider Level Adjustment"

INTEREST_TEXT == "Interest payment"
PROVIDER_LVL_ADJ == <<"Provider Lvl Adj">>

\* rows['EFT NUM'].astype(str).unique() without the blank values
eft_nums_of(rows) ==
    SelectSeq(Unique([i \in 1..Len(rows) |-> rows[i].EFT_NUM]), NonBlank)

\* the EFT numbers of the rows whose stripped Description is the marker
find_missing_encounter_efts(rows) ==
    eft_nums_of(SelectSeq(rows,
        LAMBDA r : Strip(r.Description) = ENCOUNTER_NOT_FOUND))

\* removal of the marked rows only, not of all rows of their EFTs
remove_missing_encounter_rows_only(rows, missing) ==
    IF missing # <<>>
    THEN SelectSeq(rows, LAMBDA r : ~(Strip(r.Description) = ENCOUNTER_NOT_FOUND))
    ELSE rows

\* the dataframe after the rows of the listed EFTs are removed
remove_missing_encounter_efts(rows, missing) ==
    IF missing # <<>>
    THEN SelectSeq(rows, LAMBDA r : ~InSeq(r.EFT_NUM, missing))
    ELSE rows

get_eft_num_rows(rows, eft_num) ==
    SelectSeq(rows, LAMBDA r : r.EFT_NUM = eft_num)

pmt_num_of(r) == r.PRACTICE_ID \o <<"_">> \o r.Chk_Nbr

\* dict pmt_num -> rows, in order of first appearance
get_pmt_num_rows(eft_rows) ==
    LET keys == SelectSeq(Unique([i \in 1..Len(eft_rows) |-> pmt_num_of(eft_rows[i])]),
                          LAMBDA k : k # <<>> /\ k # <<"_">>)
    IN [i \in 1..Len(keys) |->
          [key |-> keys[i],
           rows |-> SelectSeq(eft_rows, LAMBDA r : pmt_num_of(r) = keys[i])]]

ConditionA(r) ==
    /\ Strip(r.Enc_Nbr) = <<>>
    /\ Contains(r.Description, <<PLA_TEXT>>)

ConditionB(r) ==
    /\ Strip(r.Clm_Nbr) = PROVIDER_LVL_ADJ
    /\ Strip(r.Enc_Nbr) # <<>>
    /\ Contains(r.Description, <<"L6">>)

get_pla_rows(pmt_rows) == SelectSeq(pmt_rows, LAMBDA r : ConditionA(r) \/ ConditionB(r))

enc_key_of(r) == r.Enc_Nbr \o <<"_">> \o r.Clm_Sts_Cod

\* dict enc_key -> rows, in order of first appearance
get_encounter_rows(pmt_rows) ==
    LET enc_rows == SelectSeq(pmt_rows, LAMBDA r : Strip(r.Enc_Nbr) # <<>>)
        keys == SelectSeq(Unique([i \in 1..Len(enc_rows) |-> enc_key_of(enc_rows[i])]),
                          LAMBDA k : k # <<>> /\ k # <<"_">>)
    IN [i \in 1..Len(keys) |->
          [key |-> keys[i],
           rows |-> SelectSeq(enc_rows, LAMBDA r : enc_key_of(r) = keys[i])]]

\* get_service_rows without the CPT4 mask
get_service_rows_unmasked(enc_rows) == enc_rows

get_service_rows(enc_rows) == SelectSeq(enc_rows, LAMBDA r : Strip(r.CPT4) # <<>>)

\* the claim-status code without its parenthetical text
clean_clm_sts(clm_sts) ==
    IF InSeq("(", clm_sts) THEN Strip(Split(clm_sts, "(")[1]) ELSE clm_sts

create_service_object(row) ==
    LET reason_cd == Strip(row.Reason_Cd)
        remark_cd == Strip(row.Remark_Codes)
    IN [clm_sts     |-> clean_clm_sts(Strip(row.Clm_Sts_Cod)),
        posting_sts |-> Strip(row.Posting_Sts),
        cpt4        |-> Strip(row.CPT4),
        txn_status  |-> Strip(row.Txn_Status),
        description |-> Strip(row.Description),
        bill_amt    |-> Strip(row.Bill_Amt),
        paid_amt    |-> Strip(row.Pd_Amt),
        ded_amt     |-> Strip(row.Ded_Amt),
        codes       |-> IF reason_cd # <<>> THEN <<reason_cd>> ELSE <<>>,
        remarks     |-> IF remark_cd # <<>> THEN <<remark_cd>> ELSE <<>>]

create_service_objects(service_rows) ==
    [i \in 1..Len(service_rows) |-> create_service_object(service_rows[i])]

create_encounter_object(encounter_key, enc_rows) ==
    LET parts == Split1(encounter_key, "_")
        enc_nbr == parts[1]
        clm_sts == IF Len(parts) > 1 THEN parts[2] ELSE <<>>
    IN [key      |-> encounter_key,
        num      |-> enc_nbr,
        status   |-> clean_clm_sts(clm_sts),
        services |-> create_service_objects(get_service_rows(enc_rows)),
        tags     |-> <<>>]

PLA_FOUND_PREFIX == <<PLA_TEXT, " ", "found:", " ">>
PLA_SUB_PREFIXES == << <<"found:", " ">>, <<"applied:", " ">>, <<":", " ">>, <<" ", "-", " ">> >>

\* remaining text with the first matching sub-prefix removed
RECURSIVE strip_sub_prefix(_, _)
strip_sub_prefix(remaining, i) ==
    IF i > Len(PLA_SUB_PREFIXES) THEN remaining
    ELSE IF StartsWith(remaining, PLA_SUB_PREFIXES[i])
         THEN Strip(SubSeq(remaining, Len(PLA_SUB_PREFIXES[i]) + 1, Len(remaining)))
         ELSE strip_sub_prefix(remaining, i + 1)

clean_pla_description(description) ==
    IF Contains(description, PLA_FOUND_PREFIX)
    THEN Strip(Remove(description, PLA_FOUND_PREFIX))
    ELSE IF Contains(description, <<PLA_TEXT, " ">>)
         THEN strip_sub_prefix(Strip(Split(description, PLA_TEXT)[2]), 1)
         ELSE description

\* is_l6 that looks at the description only
is_l6_description_only(row) == Contains(Strip(row.Description), <<"L6">>)

is_l6(row) ==
    /\ Strip(row.Clm_Nbr) = PROVIDER_LVL_ADJ
    /\ Strip(row.Enc_Nbr) # <<>>
    /\ Contains(Strip(row.Description), <<"L6">>)

create_pla_objects(pla_rows) ==
    [pla_l6    |-> LET l6 == SelectSeq(pla_rows, is_l6)
                   IN [i \in 1..Len(l6) |-> clean_pla_description(Strip(l6[i].Description))],
     pla_other |-> LET ot == SelectSeq(pla_rows, LAMBDA r : ~is_l6(r))
                   IN [i \in 1..Len(ot) |-> clean_pla_description(Strip(ot[i].Description))]]

\* _parse_file_column that asks only for the parts it reads
parse_file_column_four_parts(pmt_rows) ==
    LET none == [practice_id |-> <<>>, num |-> <<>>, amt |-> 0]
        has_file == \A i \in 1..Len(pmt_rows) : "File" \in DOMAIN pmt_rows[i]
        file_names == IF has_file
                      THEN SelectSeq([i \in 1..Len(pmt_rows) |-> Strip(pmt_rows[i].File)],
                                     LAMBDA f : f # <<>>)
                      ELSE <<>>
    IN IF ~has_file THEN none
       ELSE IF Len(file_names) = 0 THEN none
       ELSE LET parts == Split(file_names[1], "_") IN
            IF Len(parts) < 4 THEN none
            ELSE LET amount == ParseFloat(Strip(parts[3])) IN
                 IF ~amount.ok THEN none
                 ELSE [practice_id |-> Strip(parts[1]),
                       num         |-> Strip(parts[4]),
                       amt         |-> amount.cents]

\* _parse_file_column: (practice_id, pmt_num, payment_amount) of the first
\* non-empty File value; empty ids and amount 0 when it cannot be parsed
parse_file_column(pmt_rows) ==
    LET none == [practice_id |-> <<>>, num |-> <<>>, amt |-> 0]
        has_file == \A i \in 1..Len(pmt_rows) : "File" \in DOMAIN pmt_rows[i]
        file_names == IF has_file
                      THEN SelectSeq([i \in 1..Len(pmt_rows) |-> Strip(pmt_rows[i].File)],
                                     LAMBDA f : f # <<>>)
                      ELSE <<>>
    IN IF ~has_file THEN none
       ELSE IF Len(file_names) = 0 THEN none
       ELSE LET parts == Split(file_names[1], "_") IN
            IF Len(parts) < 6 THEN none
            ELSE LET amount == ParseFloat(Strip(parts[3])) IN
                 IF ~amount.ok THEN none
                 ELSE [practice_id |-> Strip(parts[1]),
                       num         |-> Strip(parts[4]),
                       amt         |-> amount.cents]

(***************************************************************************)
(* _extract_pla_amount on the token strings.  The amount texts that occur  *)
(* are tokens of their own: a token of DollarTokens is what the patterns   *)
(* with a $ sign match, a token of NumberTokens what the number group      *)
(* matches after a label, a token of DecimalTokens what the last pattern   *)
(* (a number with two decimals) matches.  Amounts are in cents.            *)
(***************************************************************************)
DollarTokens == {"$12.50", "$-12.50", "-$12.50", "$35.03"}

\* float of the group after the $ sign: a sign before the $ is lost
DollarCents(t) ==
    CASE t = "$12.50" -> 1250
      [] t = "$-12.50" -> -1250
      [] t = "-$12.50" -> 1250
      [] t = "$35.03" -> 3503

NumberTokens == {"12.50", "-12.50", "35.03", "7"}

NumberCents(t) ==
    CASE t = "12.50" -> 1250
      [] t = "-12.50" -> -1250
      [] t = "35.03" -> 3503
      [] t = "7" -> 700

DecimalTokens == {"12.50", "-12.50", "35.03"}

AMOUNT_LABELS == <<"Amt:", "Amount:">>
NUMBER_LABELS == <<"found:", "applied:">>
COLON_TOKENS == {"found:", "applied:", "Amt:", "Amount:", ":"}

\* the least member of a set of indexes, 0 for the empty set
FirstOf(I) == IF I = {} THEN 0 ELSE CHOOSE i \in I : \A j \in I : i <= j

\* the index of the first token after position i that is not a blank, 0
\* when there is none
NextTok(s, i) == FirstOf({k \in (i + 1)..Len(s) : s[k] # " "})

\* the index of the number of the first match of the label, blanks, a number
LabelledNumber(s, label) ==
    LET at == FirstOf({i \in 1..Len(s) :
                         /\ s[i] = label
                         /\ NextTok(s, i) # 0
                         /\ s[NextTok(s, i)] \in NumberTokens})
    IN IF at = 0 THEN 0 ELSE NextTok(s, at)

\* the first label of the list with a match, as the index of its number
RECURSIVE FirstLabelled(_, _)
FirstLabelled(s, labels) ==
    IF labels = <<>> THEN 0
    ELSE IF LabelledNumber(s, Head(labels)) # 0 THEN LabelledNumber(s, Head(labels))
    ELSE FirstLabelled(s, Tail(labels))

\* the index of the number of a colon, blanks, a number at the end of the text
TrailingNumber(s) ==
    IF s # <<>> /\ s[Len(s)] \in NumberTokens
       /\ \E i \in 1..(Len(s) - 1) : s[i] \in COLON_TOKENS /\ NextTok(s, i) = Len(s)
    THEN Len(s) ELSE 0

\* the amount of a description, found FALSE for Python None
extract_pla_amount(description) ==
    LET dollar == FirstOf({i \in 1..Len(description) : description[i] \in DollarTokens})
        amt == FirstLabelled(description, AMOUNT_LABELS)
        number == FirstLabelled(description, NUMBER_LABELS)
        trailing == TrailingNumber(description)
        decimal == FirstOf({i \in 1..Len(description) : description[i] \in DecimalTokens})
    IN IF dollar # 0 THEN [found |-> TRUE, cents |-> DollarCents(description[dollar])]
       ELSE IF amt # 0 THEN [found |-> TRUE, cents |-> NumberCents(description[amt])]
       ELSE IF number # 0 THEN [found |-> TRUE, cents |-> NumberCents(description[number])]
       ELSE IF trailing # 0 THEN [found |-> TRUE, cents |-> NumberCents(description[trailing])]
       ELSE IF decimal # 0 THEN [found |-> TRUE, cents |-> NumberCents(description[decimal])]
       ELSE [found |-> FALSE, cents |-> 0]

\* the L6 test of _calculate_pla_amounts with the Enc Nbr condition lost
is_l6_amount_without_enc_nbr(row) ==
    /\ Strip(row.Clm_Nbr) = PROVIDER_LVL_ADJ
    /\ Contains(Strip(row.Description), <<"L6">>)

\* the L6 test of _calculate_pla_amounts
is_l6_amount(row) ==
    /\ Strip(row.Clm_Nbr) = PROVIDER_LVL_ADJ
    /\ Strip(row.Enc_Nbr) # <<>>
    /\ Contains(Strip(row.Description), <<"L6">>)

RECURSIVE calculate_pla_amounts(_)
calculate_pla_amounts(pla_rows) ==
    IF pla_rows = <<>> THEN [pla_l6_amts |-> 0, pla_other_amts |-> 0]
    ELSE LET n == Len(pla_rows)
             sums == calculate_pla_amounts(SubSeq(pla_rows, 1, n - 1))
             pla_amount == extract_pla_amount(Strip(pla_rows[n].Description))
         IN IF ~pla_amount.found THEN sums
            ELSE IF is_l6_amount(pla_rows[n])
            THEN [sums EXCEPT !.pla_l6_amts = @ + pla_amount.cents]
            ELSE [sums EXCEPT !.pla_other_amts = @ + pla_amount.cents]

create_payment_object(payment_key, pmt_rows) ==
    LET parsed == parse_file_column(pmt_rows)
        plas == create_pla_objects(get_pla_rows(pmt_rows))
        pla_amounts == calculate_pla_amounts(get_pla_rows(pmt_rows))
        enc_groups == get_encounter_rows(pmt_rows)
    IN [key            |-> payment_key,
        practice_id    |-> parsed.practice_id,
        num            |-> parsed.num,
        amt            |-> parsed.amt,
        status         |-> <<>>,
        plas           |-> plas,
        pla_l6_amts    |-> pla_amounts.pla_l6_amts,
        pla_other_amts |-> pla_amounts.pla_other_amts,
        encounters     |-> [i \in 1..Len(enc_groups) |->
                              create_encounter_object(enc_groups[i].key, enc_groups[i].rows)],
        encs_to_check  |-> <<>>]

create_eft_object(eft_num, eft_rows, payer_default) ==
    LET payer_values == SelectSeq(Unique([i \in 1..Len(eft_rows) |-> eft_rows[i].PAYER_FOLDER]),
                                  NonBlank)
    IN [eft_num  |-> eft_num,
        payer    |-> IF payer_values # <<>> THEN payer_values[1] ELSE payer_default,
        is_split |-> FALSE,
        status   |-> <<>>,
        payments |-> <<>>]

create_data_object(rows, payer_default) ==
    LET eft_nums == eft_nums_of(rows) IN
    [i \in 1..Len(eft_nums) |->
        LET eft_rows == get_eft_num_rows(rows, eft_nums[i])
            pmt_groups == get_pmt_num_rows(eft_rows)
        IN [create_eft_object(eft_nums[i], eft_rows, payer_default) EXCEPT
              !.payments = [j \in 1..Len(pmt_groups) |->
                              create_payment_object(pmt_groups[j].key, pmt_groups[j].rows)]]]

(***************************************************************************)
(* EncounterTagger                                                         *)
(***************************************************************************)
ENCOUNTER_TAGS ==
    {"22_no_123", "22_with_123", "appeal_has_adj", "chg_equal_adj",
     "secondary_n408_pr96", "secondary_co94_oa94", "secondary_mc_tricare_dshs",
     "tertiary", "enc_payer_not_found", "multiple_to_one", "other_not_posted",
     "svc_no_match_clm", "chg_mismatch_cpt4"}

\* the "no tag" result (Python None)
NONE == "None"

SERVICE_PAIRS ==
    {<<"99202", "99212">>, <<"99203", "99213">>, <<"99204", "99214">>,
     <<"99205", "99215">>, <<"99206", "99216">>}

\* the pair lookup in one direction only: the second member of the pair of a
\* first member
opposite_cpt4_of_first_member(cpt4) ==
    IF \E pair \in SERVICE_PAIRS : cpt4 = <<pair[1]>>
    THEN <<(CHOOSE q \in SERVICE_PAIRS : cpt4 = <<q[1]>>)[2]>>
    ELSE <<>>

\* the other member of the service pair of cpt4; empty (falsy, as None) when
\* cpt4 is in no pair
opposite_cpt4_of(cpt4) ==
    IF \E pair \in SERVICE_PAIRS : cpt4 = <<pair[1]>> \/ cpt4 = <<pair[2]>>
    THEN LET pair == CHOOSE q \in SERVICE_PAIRS : cpt4 = <<q[1]>> \/ cpt4 = <<q[2]>>
         IN IF <<pair[1]>> = cpt4 THEN <<pair[2]>> ELSE <<pair[1]>>
    ELSE <<>>

\* service.get("adj_amt", "0"): no service object has an adj_amt key
get_adj_amt(service) == <<"0">>

has_adjustment(service) ==
    LET a == ParseFloat(get_adj_amt(service)) IN a.ok /\ a.cents # 0

amounts_equal(amount1, amount2) ==
    LET a == ParseFloat(amount1)
        b == ParseFloat(amount2)
    IN a.ok /\ b.ok /\ a.cents = b.cents

\* list membership of every (any_match: some) required code
has_codes(code_list, required_codes, any_match) ==
    IF any_match
    THEN \E c \in required_codes : InSeq(<<c>>, code_list)
    ELSE \A c \in required_codes : InSeq(<<c>>, code_list)

\* clm_sts.startswith("3"): the status codes of the model that begin with 3
STARTS_WITH_3 == {"3", "30"}

is_tertiary_status(clm_sts) ==
    (clm_sts # <<>> /\ Head(clm_sts) \in STARTS_WITH_3) \/ clm_sts = <<"21">>

MC_TRICARE_DSHS == {<<"Medicare">>, <<"Tricare">>, <<"DSHS">>}

\* description_tag as in the classifier revision that has no CPT4 mismatch rule
description_tag_without_cpt4(description) ==
    IF description = <<"Encounter payer not found.">> THEN "enc_payer_not_found"
    ELSE IF description = <<"Charge mismatch on amount.">> THEN "multiple_to_one"
    ELSE IF description = <<"Multiple payments found for the same line item.">>
         THEN "multiple_to_one"
    ELSE IF description = <<"Service line payments do not sum to claim level payment.">>
         THEN "svc_no_match_clm"
    ELSE NONE

\* the tag of an exact description match, NONE without one
description_tag(description) ==
    IF description = <<"Encounter payer not found.">> THEN "enc_payer_not_found"
    ELSE IF description = <<"Charge mismatch on amount.">> THEN "multiple_to_one"
    ELSE IF description = <<"Multiple payments found for the same line item.">>
         THEN "multiple_to_one"
    ELSE IF description = <<"Service line payments do not sum to claim level payment.">>
         THEN "svc_no_match_clm"
    ELSE IF description = <<"Charge mismatch on CPT4.">> THEN "chg_mismatch_cpt4"
    ELSE NONE

analyze_service(service, payer, primary_cpt4s, secondary_cpt4s, tertiary_cpt4s, recoupment_cpt4s) ==
    LET description == Strip(service.description)
        posted_sts == Strip(service.posting_sts)
        clm_sts == Strip(service.clm_sts)
        cpt4 == Strip(service.cpt4)
        txn_status == Strip(service.txn_status)
        bill_amt == Strip(service.bill_amt)
        all_codes == service.codes \o service.remarks
        opposite_cpt4 == opposite_cpt4_of(cpt4)
        all_other_cpt4s == primary_cpt4s \cup secondary_cpt4s \cup tertiary_cpt4s
    IN
    IF description_tag(description) # NONE THEN description_tag(description)
    ELSE IF posted_sts = <<"Not", " ", "Posted">> THEN "other_not_posted"
    ELSE IF clm_sts = <<"22">>
         THEN IF opposite_cpt4 # <<>> /\ opposite_cpt4 \in all_other_cpt4s THEN NONE
              ELSE IF cpt4 \in all_other_cpt4s THEN "22_with_123"
              ELSE "22_no_123"
    ELSE IF cpt4 \in recoupment_cpt4s
            \/ (opposite_cpt4 # <<>> /\ opposite_cpt4 \in recoupment_cpt4s)
         THEN NONE
    ELSE IF txn_status = <<"Appeal">> /\ has_adjustment(service) THEN "appeal_has_adj"
    ELSE IF amounts_equal(bill_amt, get_adj_amt(service)) /\ txn_status # <<"Appeal">>
         THEN "chg_equal_adj"
    ELSE IF clm_sts \in {<<"2">>, <<"20">>}
            /\ has_codes(all_codes, {"N408", "PR96"}, FALSE)
            /\ has_codes(all_codes, {"CO45", "OA23"}, TRUE)
         THEN "secondary_n408_pr96"
    ELSE IF clm_sts \in {<<"2">>, <<"20">>}
            /\ has_codes(all_codes, {"CO94", "OA94"}, TRUE)
            /\ has_codes(all_codes, {"CO45", "OA23"}, TRUE)
            /\ has_codes(all_codes, {"PR96"}, FALSE)
         THEN "secondary_co94_oa94"
    ELSE IF clm_sts \in {<<"2">>, <<"20">>} /\ payer \in MC_TRICARE_DSHS
         THEN "secondary_mc_tricare_dshs"
    ELSE IF is_tertiary_status(clm_sts) THEN "tertiary"
    ELSE NONE

\* the review classifier without its skip of a CPT4 that is being recouped
review_analyze_service_without_skip(service, payer, primary_cpt4s, secondary_cpt4s, tertiary_cpt4s, recoupment_cpt4s) ==
    LET description == Strip(service.description)
        posted_sts == Strip(service.posting_sts)
        clm_sts == Strip(service.clm_sts)
        cpt4 == Strip(service.cpt4)
        txn_status == Strip(service.txn_status)
        bill_amt == Strip(service.bill_amt)
        all_codes == service.codes \o service.remarks
        all_other_cpt4s == primary_cpt4s \cup secondary_cpt4s \cup tertiary_cpt4s
    IN
    IF description = <<"Encounter payer not found.">> THEN "enc_payer_not_found"
    ELSE IF description = <<"Charge mismatch on amount.">> THEN "multiple_to_one"
    ELSE IF description = <<"Multiple payments found for the same line item.">>
         THEN "multiple_to_one"
    ELSE IF description = <<"Service line payments do not sum to claim level payment.">>
         THEN "svc_no_match_clm"
    ELSE IF posted_sts = <<"Not", " ", "Posted">> THEN "other_not_posted"
    ELSE IF clm_sts = <<"22">>
         THEN IF cpt4 \in all_other_cpt4s THEN "22_with_123" ELSE "22_no_123"
    ELSE IF txn_status = <<"Appeal">> /\ has_adjustment(service) THEN "appeal_has_adj"
    ELSE IF amounts_equal(bill_amt, get_adj_amt(service)) /\ txn_status # <<"Appeal">>
         THEN "chg_equal_adj"
    ELSE IF clm_sts \in {<<"2">>, <<"20">>}
            /\ has_codes(all_codes, {"N408", "PR96"}, FALSE)
            /\ has_codes(all_codes, {"CO45", "OA23"}, TRUE)
         THEN "secondary_n408_pr96"
    ELSE IF clm_sts \in {<<"2">>, <<"20">>}
            /\ has_codes(all_codes, {"CO94", "OA94"}, TRUE)
            /\ has_codes(all_codes, {"CO45", "OA23"}, TRUE)
            /\ has_codes(all_codes, {"PR96"}, FALSE)
         THEN "secondary_co94_oa94"
    ELSE IF clm_sts \in {<<"2">>, <<"20">>} /\ payer \in MC_TRICARE_DSHS
         THEN "secondary_mc_tricare_dshs"
    ELSE IF is_tertiary_status(clm_sts) THEN "tertiary"
    ELSE NONE

\* EncounterReviewAnalyzer._analyze_service (data_analysis.py): the classifier
\* without the CPT4 mismatch rule and without service pairs
review_analyze_service(service, payer, primary_cpt4s, secondary_cpt4s, tertiary_cpt4s, recoupment_cpt4s) ==
    LET description == Strip(service.description)
        posted_sts == Strip(service.posting_sts)
        clm_sts == Strip(service.clm_sts)
        cpt4 == Strip(service.cpt4)
        txn_status == Strip(service.txn_status)
        bill_amt == Strip(service.bill_amt)
        all_codes == service.codes \o service.remarks
        all_other_cpt4s == primary_cpt4s \cup secondary_cpt4s \cup tertiary_cpt4s
    IN
    IF description = <<"Encounter payer not found.">> THEN "enc_payer_not_found"
    ELSE IF description = <<"Charge mismatch on amount.">> THEN "multiple_to_one"
    ELSE IF description = <<"Multiple payments found for the same line item.">>
         THEN "multiple_to_one"
    ELSE IF description = <<"Service line payments do not sum to claim level payment.">>
         THEN "svc_no_match_clm"
    ELSE IF posted_sts = <<"Not", " ", "Posted">> THEN "other_not_posted"
    ELSE IF clm_sts = <<"22">>
         THEN IF cpt4 \in all_other_cpt4s THEN "22_with_123" ELSE "22_no_123"
    ELSE IF cpt4 \in recoupment_cpt4s THEN NONE
    ELSE IF txn_status = <<"Appeal">> /\ has_adjustment(service) THEN "appeal_has_adj"
    ELSE IF amounts_equal(bill_amt, get_adj_amt(service)) /\ txn_status # <<"Appeal">>
         THEN "chg_equal_adj"
    ELSE IF clm_sts \in {<<"2">>, <<"20">>}
            /\ has_codes(all_codes, {"N408", "PR96"}, FALSE)
            /\ has_codes(all_codes, {"CO45", "OA23"}, TRUE)
         THEN "secondary_n408_pr96"
    ELSE IF clm_sts \in {<<"2">>, <<"20">>}
            /\ has_codes(all_codes, {"CO94", "OA94"}, TRUE)
            /\ has_codes(all_codes, {"CO45", "OA23"}, TRUE)
            /\ has_codes(all_codes, {"PR96"}, FALSE)
         THEN "secondary_co94_oa94"
    ELSE IF clm_sts \in {<<"2">>, <<"20">>} /\ payer \in MC_TRICARE_DSHS
         THEN "secondary_mc_tricare_dshs"
    ELSE IF is_tertiary_status(clm_sts) THEN "tertiary"
    ELSE NONE

\* the non-blank CPT4 codes of the services of the listed encounters
cpt4s_of(encs) ==
    UNION {{encs[i].services[j].cpt4 : j \in 1..Len(encs[i].services)} :
             i \in 1..Len(encs)} \ {<<>>}

\* all_encounters without the filter on the encounter number
encounters_of_any_num(payment, encounter_num) == payment.encounters

\* all_encounters: the encounters of the payment with the encounter number
encounters_with_num(payment, encounter_num) ==
    SelectSeq(payment.encounters, LAMBDA e : e.num = encounter_num)

\* service_tags that looks for no recoupment services
service_tags_without_recoupment(payment, encounter, payer) ==
    LET all_encounters == encounters_with_num(payment, encounter.num)
        recoupment_encounters == SelectSeq(all_encounters, LAMBDA e : e.status = <<"22">>)
        non_recoupment_encounters == SelectSeq(all_encounters, LAMBDA e : e.status # <<"22">>)
        primary_encounters ==
            SelectSeq(non_recoupment_encounters, LAMBDA e : e.status \in {<<"1">>, <<"19">>})
        secondary_encounters ==
            SelectSeq(non_recoupment_encounters, LAMBDA e : e.status \in {<<"2">>, <<"20">>})
        tertiary_encounters ==
            SelectSeq(non_recoupment_encounters, LAMBDA e : is_tertiary_status(e.status))
    IN [j \in 1..Len(encounter.services) |->
          analyze_service(encounter.services[j], payer,
                          cpt4s_of(primary_encounters), cpt4s_of(secondary_encounters),
                          cpt4s_of(tertiary_encounters), {})]

\* the tag of every service of the encounter, in service order
service_tags(payment, encounter, payer) ==
    LET all_encounters == encounters_with_num(payment, encounter.num)
        recoupment_encounters == SelectSeq(all_encounters, LAMBDA e : e.status = <<"22">>)
        non_recoupment_encounters == SelectSeq(all_encounters, LAMBDA e : e.status # <<"22">>)
        primary_encounters ==
            SelectSeq(non_recoupment_encounters, LAMBDA e : e.status \in {<<"1">>, <<"19">>})
        secondary_encounters ==
            SelectSeq(non_recoupment_encounters, LAMBDA e : e.status \in {<<"2">>, <<"20">>})
        tertiary_encounters ==
            SelectSeq(non_recoupment_encounters, LAMBDA e : is_tertiary_status(e.status))
    IN [j \in 1..Len(encounter.services) |->
          analyze_service(encounter.services[j], payer,
                          cpt4s_of(primary_encounters), cpt4s_of(secondary_encounters),
                          cpt4s_of(tertiary_encounters), cpt4s_of(recoupment_encounters))]

\* encounter_quick_check that reports the first tag found only
encounter_quick_check_first_tag(payment, encounter, payer) ==
    LET tags == service_tags(payment, encounter, payer)
        every == Unique(SelectSeq(tags, LAMBDA t : t # NONE))
        found == IF every = <<>> THEN <<>> ELSE <<every[1]>>
    IN [key        |-> encounter.key,
        num        |-> encounter.num,
        clm_status |-> encounter.status,
        types      |-> [k \in 1..Len(found) |->
                          [tag   |-> found[k],
                           cpt4s |-> {encounter.services[j].cpt4 :
                                        j \in {i \in 1..Len(tags) : tags[i] = found[k]}}]]]

\* review data of one encounter; types is empty when no review is needed
\* (the code returns None then)
encounter_quick_check(payment, encounter, payer) ==
    LET tags == service_tags(payment, encounter, payer)
        found == Unique(SelectSeq(tags, LAMBDA t : t # NONE))
    IN [key        |-> encounter.key,
        num        |-> encounter.num,
        clm_status |-> encounter.status,
        types      |-> [k \in 1..Len(found) |->
                          [tag   |-> found[k],
                           cpt4s |-> {encounter.services[j].cpt4 :
                                        j \in {i \in 1..Len(tags) : tags[i] = found[k]}}]]]

(***************************************************************************)
(* Python's order on the strings that are sorted (encounter numbers,       *)
(* claim-status codes, EFT numbers, practice ids and check numbers):       *)
(* lexicographic on tokens, the tokens ranked as Python ranks them.        *)
(***************************************************************************)
TOKEN_ORDER ==
    <<" ", "(", ")", "1", "1001", "1002", "19", "2", "20", "21", "22", "3", "30",
      "C1", "C2", "E1", "E2", "P1", "P2", "Reprocessed", "_">>

TokRank(t) == FindTok(TOKEN_ORDER, t, 1)

RECURSIVE StrLess(_, _)
StrLess(a, b) ==
    IF b = <<>> THEN FALSE
    ELSE IF a = <<>> THEN TRUE
    ELSE IF Head(a) = Head(b) THEN StrLess(Tail(a), Tail(b))
    ELSE TokRank(Head(a)) < TokRank(Head(b))

\* (num, status) tuple order of the sort key in tag_encounters
EncLess(x, y) ==
    StrLess(x.num, y.num) \/ (x.num = y.num /\ StrLess(x.clm_status, y.clm_status))

\* stable insertion of the keyed entry x into the list s sorted by key k
RECURSIVE InsertByKey(_, _)
InsertByKey(s, x) ==
    IF s = <<>> THEN <<x>>
    ELSE IF x.k < Head(s).k THEN <<x>> \o s
    ELSE <<Head(s)>> \o InsertByKey(Tail(s), x)

RECURSIVE SortKeyed(_)
SortKeyed(s) ==
    IF s = <<>> THEN <<>>
    ELSE InsertByKey(SortKeyed(SubSeq(s, 1, Len(s) - 1)), s[Len(s)])

\* list.sort(key=...): stable sort of s by the integer keys keys[i] of s[i]
SortByKey(s, keys) ==
    LET sorted == SortKeyed([i \in 1..Len(s) |-> [k |-> keys[i], v |-> s[i]]])
    IN [i \in 1..Len(s) |-> sorted[i].v]

\* sort_items.sort(key=lambda x: (x[0], x[1])): the key of an entry is its
\* rank in the (num, status) order
sort_encs_to_check(encs) ==
    SortByKey(encs, [i \in 1..Len(encs) |->
                       Cardinality({j \in 1..Len(encs) : EncLess(encs[j], encs[i])})])

\* tag_encounters of one payment that adds the tags to the encounter's list
tag_payment_encounters_appending(payment, payer) ==
    LET reviews == [i \in 1..Len(payment.encounters) |->
                      encounter_quick_check(payment, payment.encounters[i], payer)]
    IN [payment EXCEPT
          !.encounters = [i \in 1..Len(payment.encounters) |->
                            IF reviews[i].types # <<>>
                            THEN [payment.encounters[i] EXCEPT
                                    !.tags = @ \o [k \in 1..Len(reviews[i].types) |->
                                                     reviews[i].types[k].tag]]
                            ELSE payment.encounters[i]],
          !.encs_to_check = sort_encs_to_check(SelectSeq(reviews, LAMBDA r : r.types # <<>>))]

\* tag_encounters for one payment: the tags of its encounters and its sorted
\* encs_to_check
tag_payment_encounters(payment, payer) ==
    LET reviews == [i \in 1..Len(payment.encounters) |->
                      encounter_quick_check(payment, payment.encounters[i], payer)]
    IN [payment EXCEPT
          !.encounters = [i \in 1..Len(payment.encounters) |->
                            IF reviews[i].types # <<>>
                            THEN [payment.encounters[i] EXCEPT
                                    !.tags = [k \in 1..Len(reviews[i].types) |->
                                                reviews[i].types[k].tag]]
                            ELSE payment.encounters[i]],
          !.encs_to_check = sort_encs_to_check(SelectSeq(reviews, LAMBDA r : r.types # <<>>))]

tag_encounters(dobj) ==
    [e \in 1..Len(dobj) |->
       [dobj[e] EXCEPT
          !.payments = [p \in 1..Len(dobj[e].payments) |->
                          tag_payment_encounters(dobj[e].payments[p], dobj[e].payer)]]]

(***************************************************************************)
(* PaymentTagger                                                           *)
(***************************************************************************)
\* not_posted_list without the tag added last
not_posted_list_without_cpt4 ==
    {"enc_payer_not_found", "multiple_to_one", "other_not_posted", "svc_no_match_clm"}

not_posted_list ==
    {"enc_payer_not_found", "multiple_to_one", "other_not_posted", "svc_no_match_clm",
     "chg_mismatch_cpt4"}

\* check_ng_and_data with the tertiary entry lost
check_ng_and_data_without_tertiary == {"secondary_co94_oa94", "secondary_mc_tricare_dshs"}

check_ng_and_data == {"secondary_co94_oa94", "secondary_mc_tricare_dshs", "tertiary"}

reversals == {"22_no_123", "22_with_123"}

quick_post_types == {"appeal_has_adj", "chg_equal_adj", "secondary_n408_pr96"}

\* the union of the keys of the types of all encounters to check
all_encounter_types_of(payment) ==
    UNION {{payment.encs_to_check[i].types[k].tag :
              k \in 1..Len(payment.encs_to_check[i].types)} :
             i \in 1..Len(payment.encs_to_check)}

\* has_plas that looks at the Other PLAs only
payment_has_plas_other_only(payment) == Len(payment.plas.pla_other) > 0

payment_has_plas(payment) ==
    Len(payment.plas.pla_l6) > 0 \/ Len(payment.plas.pla_other) > 0

\* determine_payment_status that gives Full Post with PLAs as well
determine_payment_status_plas_full_post(payment) ==
    LET has_plas == payment_has_plas(payment)
        has_encs == payment.encs_to_check # <<>>
        all_encounter_types == all_encounter_types_of(payment)
    IN
    IF ~has_plas /\ ~has_encs THEN <<"Immediate", " ", "Post">>
    ELSE IF has_plas /\ ~has_encs THEN <<"PLA", " ", "Only">>
    ELSE IF all_encounter_types \cap not_posted_list # {} THEN <<"Mixed", " ", "Post">>
    ELSE IF ~has_plas /\ all_encounter_types # {}
            /\ all_encounter_types \subseteq quick_post_types
         THEN <<"Quick", " ", "Post">>
    ELSE IF all_encounter_types \cap check_ng_and_data # {}
            \/ all_encounter_types \cap reversals # {}
         THEN <<"Full", " ", "Post">>
    ELSE <<"Unknown">>

determine_payment_status(payment) ==
    LET has_plas == payment_has_plas(payment)
        has_encs == payment.encs_to_check # <<>>
        all_encounter_types == all_encounter_types_of(payment)
    IN
    IF ~has_plas /\ ~has_encs THEN <<"Immediate", " ", "Post">>
    ELSE IF has_plas /\ ~has_encs THEN <<"PLA", " ", "Only">>
    ELSE IF all_encounter_types \cap not_posted_list # {} THEN <<"Mixed", " ", "Post">>
    ELSE IF ~has_plas /\ all_encounter_types # {}
            /\ all_encounter_types \subseteq quick_post_types
         THEN <<"Quick", " ", "Post">>
    ELSE IF ~has_plas /\ (all_encounter_types \cap check_ng_and_data # {}
                          \/ all_encounter_types \cap reversals # {})
         THEN <<"Full", " ", "Post">>
    ELSE <<"Unknown">>

\* is_split with the comparison off by one
is_split_of_at_least_one(eft) == Len(eft.payments) >= 1

\* len(eft["payments"]) > 1
is_split_of(eft) == Len(eft.payments) > 1

\* tag_payments that empties encs_to_check while it sets the status
tag_payments_clearing_checks(dobj) ==
    [e \in 1..Len(dobj) |->
       [dobj[e] EXCEPT
          !.is_split = is_split_of(dobj[e]),
          !.payments = [p \in 1..Len(dobj[e].payments) |->
                          [dobj[e].payments[p] EXCEPT
                             !.status = determine_payment_status(dobj[e].payments[p]),
                             !.encs_to_check = <<>>]]]]

tag_payments(dobj) ==
    [e \in 1..Len(dobj) |->
       [dobj[e] EXCEPT
          !.is_split = is_split_of(dobj[e]),
          !.payments = [p \in 1..Len(dobj[e].payments) |->
                          [dobj[e].payments[p] EXCEPT
                             !.status = determine_payment_status(dobj[e].payments[p])]]]]

(***************************************************************************)
(* AnalyticsProcessor                                                      *)
(***************************************************************************)
RECURSIVE Flatten(_)
Flatten(ss) == IF ss = <<>> THEN <<>> ELSE Head(ss) \o Flatten(Tail(ss))

MIXED_POST == <<"Mixed", " ", "Post">>

payment_info_of(eft, payment) ==
    [eft_num             |-> eft.eft_num,
     practice_id         |-> payment.practice_id,
     payment_num         |-> payment.num,
     payment_amount      |-> payment.amt,
     encs_to_check_count |-> Len(payment.encs_to_check),
     total_encounters    |-> Len(payment.encounters),
     pla_l6_count        |-> Len(payment.plas.pla_l6),
     pla_other_count     |-> Len(payment.plas.pla_other),
     payment_status      |-> payment.status,
     encounters_to_check |-> payment.encs_to_check]

\* the Mixed Post payments of all EFTs, split or not
mixed_post_payments_all_efts(dobj) ==
    Flatten([e \in 1..Len(dobj) |->
        LET mixed == SelectSeq(dobj[e].payments, LAMBDA p : p.status = MIXED_POST)
        IN [i \in 1..Len(mixed) |-> [eft |-> dobj[e], payment |-> mixed[i]]]])

\* the Mixed Post payments of the not-split EFTs, in iteration order
mixed_post_payments(dobj) ==
    Flatten([e \in 1..Len(dobj) |->
        IF dobj[e].is_split THEN <<>>
        ELSE LET mixed == SelectSeq(dobj[e].payments, LAMBDA p : p.status = MIXED_POST)
             IN [i \in 1..Len(mixed) |-> [eft |-> dobj[e], payment |-> mixed[i]]]])

has_type(enc_check_data, tag) ==
    \E k \in 1..Len(enc_check_data.types) : enc_check_data.types[k].tag = tag

cpt4s_of_type(enc_check_data, tag) ==
    UNION {enc_check_data.types[k].cpt4s :
             k \in {i \in 1..Len(enc_check_data.types) : enc_check_data.types[i].tag = tag}}

analyze_charge_mismatch_encounters(payment, payment_info) ==
    LET hits == SelectSeq(payment.encs_to_check,
                          LAMBDA d : has_type(d, "chg_mismatch_cpt4"))
    IN [i \in 1..Len(hits) |->
          [eft_num             |-> payment_info.eft_num,
           practice_id         |-> payment_info.practice_id,
           payment_num         |-> payment_info.payment_num,
           payment_amount      |-> payment_info.payment_amount,
           encounter_num       |-> hits[i].num,
           encounter_status    |-> hits[i].clm_status,
           encounter_key       |-> hits[i].key,
           encs_to_check_count |-> payment_info.encs_to_check_count,
           cpt4_codes          |-> cpt4s_of_type(hits[i], "chg_mismatch_cpt4")]]

\* the first entry of s with the largest positive count; <<>> stands for None
RECURSIVE first_max(_, _)
first_max(s, best) ==
    IF s = <<>> THEN best
    ELSE first_max(Tail(s),
                   IF Head(s).count > 0 /\ (best = <<>> \/ Head(s).count > best[1].count)
                   THEN <<Head(s)>> ELSE best)

RECURSIVE SumSeq(_)
SumSeq(s) == IF s = <<>> THEN 0 ELSE Head(s) + SumSeq(Tail(s))

\* analyze_max_encounters that keeps the last candidate on a tie
analyze_max_encounters_last_on_tie(dobj) ==
    LET not_split == Flatten([e \in 1..Len(dobj) |->
            IF dobj[e].is_split THEN <<>>
            ELSE [i \in 1..Len(dobj[e].payments) |->
                    [count |-> Len(dobj[e].payments[i].encs_to_check),
                     info  |-> [eft_num          |-> dobj[e].eft_num,
                                practice_id      |-> dobj[e].payments[i].practice_id,
                                payment_num      |-> dobj[e].payments[i].num,
                                total_encounters |-> Len(dobj[e].payments[i].encounters),
                                payment_status   |-> dobj[e].payments[i].status,
                                pla_l6_count     |-> Len(dobj[e].payments[i].plas.pla_l6),
                                pla_other_count  |-> Len(dobj[e].payments[i].plas.pla_other)]]]])
        split == Flatten([e \in 1..Len(dobj) |->
            IF ~dobj[e].is_split THEN <<>>
            ELSE << [count |-> SumSeq([i \in 1..Len(dobj[e].payments) |->
                                         Len(dobj[e].payments[i].encs_to_check)]),
                     info  |-> [eft_num       |-> dobj[e].eft_num,
                                payment_count |-> Len(dobj[e].payments),
                                payments      |-> [i \in 1..Len(dobj[e].payments) |->
                                    [practice_id     |-> dobj[e].payments[i].practice_id,
                                     payment_num     |-> dobj[e].payments[i].num,
                                     encs_to_check   |-> Len(dobj[e].payments[i].encs_to_check),
                                     status          |-> dobj[e].payments[i].status,
                                     pla_l6_count    |-> Len(dobj[e].payments[i].plas.pla_l6),
                                     pla_other_count |-> Len(dobj[e].payments[i].plas.pla_other)]]]] >>])
    IN [not_split_single_payment |-> first_max([i \in 1..Len(not_split) |-> not_split[Len(not_split) + 1 - i]], <<>>),
        split_single_eft         |-> first_max([i \in 1..Len(split) |-> split[Len(split) + 1 - i]], <<>>)]

analyze_max_encounters(dobj) ==
    LET not_split == Flatten([e \in 1..Len(dobj) |->
            IF dobj[e].is_split THEN <<>>
            ELSE [i \in 1..Len(dobj[e].payments) |->
                    [count |-> Len(dobj[e].payments[i].encs_to_check),
                     info  |-> [eft_num          |-> dobj[e].eft_num,
                                practice_id      |-> dobj[e].payments[i].practice_id,
                                payment_num      |-> dobj[e].payments[i].num,
                                total_encounters |-> Len(dobj[e].payments[i].encounters),
                                payment_status   |-> dobj[e].payments[i].status,
                                pla_l6_count     |-> Len(dobj[e].payments[i].plas.pla_l6),
                                pla_other_count  |-> Len(dobj[e].payments[i].plas.pla_other)]]]])
        split == Flatten([e \in 1..Len(dobj) |->
            IF ~dobj[e].is_split THEN <<>>
            ELSE << [count |-> SumSeq([i \in 1..Len(dobj[e].payments) |->
                                         Len(dobj[e].payments[i].encs_to_check)]),
                     info  |-> [eft_num       |-> dobj[e].eft_num,
                                payment_count |-> Len(dobj[e].payments),
                                payments      |-> [i \in 1..Len(dobj[e].payments) |->
                                    [practice_id     |-> dobj[e].payments[i].practice_id,
                                     payment_num     |-> dobj[e].payments[i].num,
                                     encs_to_check   |-> Len(dobj[e].payments[i].encs_to_check),
                                     status          |-> dobj[e].payments[i].status,
                                     pla_l6_count    |-> Len(dobj[e].payments[i].plas.pla_l6),
                                     pla_other_count |-> Len(dobj[e].payments[i].plas.pla_other)]]]] >>])
    IN [not_split_single_payment |-> first_max(not_split, <<>>),
        split_single_eft         |-> first_max(split, <<>>)]

\* results of analyze_mixed_post_payments, the lists sorted and summarised by
\* _process_analytics_results
analyze_mixed_post_payments(dobj) ==
    LET mixed == mixed_post_payments(dobj)
        infos == [i \in 1..Len(mixed) |->
                    [info    |-> payment_info_of(mixed[i].eft, mixed[i].payment),
                     payment |-> mixed[i].payment]]
        no_plas == SelectSeq(infos, LAMBDA x : ~payment_has_plas(x.payment))
        l6_only == SelectSeq(infos, LAMBDA x : Len(x.payment.plas.pla_l6) > 0
                                               /\ Len(x.payment.plas.pla_other) = 0)
        mismatch == Flatten([i \in 1..Len(infos) |->
                        analyze_charge_mismatch_encounters(infos[i].payment, infos[i].info)])
        no_plas_sorted == SortByKey([i \in 1..Len(no_plas) |-> no_plas[i].info],
                                    [i \in 1..Len(no_plas) |-> 0 - no_plas[i].info.encs_to_check_count])
        l6_only_sorted == SortByKey([i \in 1..Len(l6_only) |-> l6_only[i].info],
                                    [i \in 1..Len(l6_only) |-> 0 - l6_only[i].info.encs_to_check_count])
        mismatch_sorted == SortByKey(mismatch,
                                     [i \in 1..Len(mismatch) |-> mismatch[i].encs_to_check_count])
    IN [mixed_post_no_plas              |-> no_plas_sorted,
        mixed_post_l6_only              |-> l6_only_sorted,
        charge_mismatch_cpt4_encounters |-> mismatch_sorted,
        max_encounters_analysis         |-> analyze_max_encounters(dobj),
        summary |->
          [mixed_post_no_plas_count      |-> Len(no_plas_sorted),
           mixed_post_l6_only_count      |-> Len(l6_only_sorted),
           charge_mismatch_cpt4_count    |-> Len(mismatch_sorted),
           largest_no_plas_encs          |-> IF no_plas_sorted # <<>>
                                             THEN no_plas_sorted[1].encs_to_check_count ELSE 0,
           largest_l6_only_encs          |-> IF l6_only_sorted # <<>>
                                             THEN l6_only_sorted[1].encs_to_check_count ELSE 0,
           smallest_charge_mismatch_encs |-> IF mismatch_sorted # <<>>
                                             THEN mismatch_sorted[1].encs_to_check_count ELSE 0]]

(***************************************************************************)
(* MarkdownGenerator: the report is modelled by its structure (sections,   *)
(* entries and the fields printed in their titles), not by its text.       *)
(***************************************************************************)
status_order ==
    << <<"Immediate", " ", "Post">>, <<"PLA", " ", "Only">>, <<"Quick", " ", "Post">>,
       <<"Full", " ", "Post">>, <<"Mixed", " ", "Post">> >>

\* sorted(strings)
sort_strings(ss) ==
    SortByKey(ss, [i \in 1..Len(ss) |->
                     Cardinality({j \in 1..Len(ss) : StrLess(ss[j], ss[i])})])

PairLess(a1, a2, b1, b2) == StrLess(a1, b1) \/ (a1 = b1 /\ StrLess(a2, b2))

\* sorted(payments, key=(practice_id, num)) for entries with these fields
sort_by_practice_and_num(ps) ==
    SortByKey(ps, [i \in 1..Len(ps) |->
                     Cardinality({j \in 1..Len(ps) :
                        PairLess(ps[j].practice_id, ps[j].pmt_num,
                                 ps[i].practice_id, ps[i].pmt_num)})])

\* the title fields of a payment's collapsible entry and of its "It Should"
report_entry(eft, payment) ==
    [payment_key         |-> payment.key,
     eft_num             |-> eft.eft_num,
     practice_id         |-> payment.practice_id,
     pmt_num             |-> payment.num,
     encs_to_check_count |-> Len(payment.encs_to_check),
     total_encounters    |-> Len(payment.encounters),
     pla_count           |-> Len(payment.plas.pla_l6) + Len(payment.plas.pla_other),
     status              |-> payment.status]

generate_not_split_section(not_split_efts) ==
    LET payment_infos == Flatten([e \in 1..Len(not_split_efts) |->
            [i \in 1..Len(not_split_efts[e].payments) |->
               report_entry(not_split_efts[e], not_split_efts[e].payments[i])]])
    IN [count  |-> Len(not_split_efts),
        groups |-> [s \in 1..Len(status_order) |->
                      [status   |-> status_order[s],
                       payments |-> sort_by_practice_and_num(
                           SelectSeq(payment_infos, LAMBDA x : x.status = status_order[s]))]]]

generate_split_section(split_efts) ==
    LET order == sort_strings([e \in 1..Len(split_efts) |-> split_efts[e].eft_num])
        eft_of(n) == split_efts[CHOOSE e \in 1..Len(split_efts) : split_efts[e].eft_num = n]
    IN [count |-> Len(split_efts),
        efts  |-> [k \in 1..Len(order) |->
                     LET eft == eft_of(order[k]) IN
                     [eft_num  |-> eft.eft_num,
                      payments |-> sort_by_practice_and_num(
                          [i \in 1..Len(eft.payments) |-> report_entry(eft, eft.payments[i])])]]]

generate_efts_markdown(dobj, missing, results) ==
    [missing   |-> IF Len(missing) > 0 THEN sort_strings(missing) ELSE <<>>,
     scenarios |-> [no_plas   |-> results.mixed_post_no_plas,
                    l6_only   |-> results.mixed_post_l6_only,
                    mismatch  |-> results.charge_mismatch_cpt4_encounters,
                    max       |-> results.max_encounters_analysis,
                    summary   |-> results.summary],
     not_split |-> generate_not_split_section(SelectSeq(dobj, LAMBDA e : ~e.is_split)),
     split     |-> generate_split_section(SelectSeq(dobj, LAMBDA e : e.is_split))]

\* the payments of the listed EFTs, in iteration order
payments_of(efts) ==
    Flatten([e \in 1..Len(efts) |-> efts[e].payments])

status_counts(payments) ==
    [st \in {payments[i].status : i \in 1..Len(payments)} |->
        Cardinality({i \in 1..Len(payments) : payments[i].status = st})]

generate_summary_stats(dobj, missing) ==
    LET all == payments_of(dobj) IN
    [total_efts                |-> Len(dobj),
     split_efts                |-> Len(SelectSeq(dobj, LAMBDA e : e.is_split)),
     not_split_efts            |-> Len(SelectSeq(dobj, LAMBDA e : ~e.is_split)),
     total_payments            |-> Len(all),
     total_encounters          |-> SumSeq([i \in 1..Len(all) |-> Len(all[i].encounters)]),
     total_encounters_to_check |-> SumSeq([i \in 1..Len(all) |-> Len(all[i].encs_to_check)]),
     missing_encounter_efts    |-> Len(missing),
     payment_statuses          |-> status_counts(all),
     not_split_by_status       |-> status_counts(payments_of(SelectSeq(dobj, LAMBDA e : ~e.is_split)))]

(***************************************************************************)
(* Input tables.  Every column of the scrubbed table is a string; a row is *)
(* a record of the columns the core reads.  The cell values carry no       *)
(* leading or trailing blanks: the code strips every cell before it        *)
(* compares it, and the properties below speak of the stripped values.     *)
(***************************************************************************)
MaxRowsGroup == 2
MaxRowsClassify == 2
MaxRowsStatus == 3
MaxRowsFile == 3
MaxRowsPla == 2
MaxRowsOrder == 2
MaxRowsCodes == 2
MaxRowsPairs == 3
MaxRowsMax == 4
MaxRowsScrub == 3

MaxRowsAgree == 2

\* the File value of a payment: WS_ID_WAYSTARID_AMOUNT_CHECKNUMBER_TYPE_FILEDATE
FileOf(ws_id, chk) ==
    <<ws_id, "_", "SB542", "_", "35.03", "_", chk, "_", "ACH", "_", "20250603">>

NOT_POSTED == <<"Not", " ", "Posted">>

BaseRow ==
    [EFT_NUM      |-> <<"E1">>,
     PRACTICE_ID  |-> <<"P1">>,
     Chk_Nbr      |-> <<"C1">>,
     Enc_Nbr      |-> <<"1001">>,
     Clm_Sts_Cod  |-> <<"1">>,
     CPT4         |-> <<"99213">>,
     Description  |-> <<>>,
     Clm_Nbr      |-> <<"CLM1">>,
     Posting_Sts  |-> <<"Posted">>,
     Txn_Status   |-> <<>>,
     Bill_Amt     |-> <<"100.00">>,
     Pd_Amt       |-> <<"80.00">>,
     Ded_Amt      |-> <<"0.00">>,
     Reason_Cd    |-> <<>>,
     Remark_Codes |-> <<>>,
     File         |-> FileOf("P1", "C1"),
     PAYER_FOLDER |-> <<>>]

\* a Provider-Level-Adjustment row of Condition A
PlaRowA ==
    [BaseRow EXCEPT !.Enc_Nbr = <<>>, !.Clm_Sts_Cod = <<>>, !.CPT4 = <<>>, !.Clm_Nbr = <<>>,
                    !.Description = <<PLA_TEXT, " ", "found:", " ", "$12.50">>]

\* a Condition A row whose description mentions L6
PlaRowAL6 ==
    [PlaRowA EXCEPT !.Description = <<PLA_TEXT, " ", "found:", " ", "L6", " ", "$12.50">>]

\* a Provider-Level-Adjustment row of Condition B (L6, interest)
PlaRowB ==
    [BaseRow EXCEPT !.Enc_Nbr = <<"1002">>, !.Clm_Sts_Cod = <<>>, !.CPT4 = <<>>,
                    !.Clm_Nbr = PROVIDER_LVL_ADJ,
                    !.Description = <<PLA_TEXT, " ", "-", " ", "L6", " ", "$12.50">>]

MissingEncounterRow ==
    [BaseRow EXCEPT !.Enc_Nbr = <<>>, !.Description = ENCOUNTER_NOT_FOUND]

\* r moved to another EFT and payment
Place(r, eft, practice, chk) ==
    [r EXCEPT !.EFT_NUM = eft, !.PRACTICE_ID = <<practice>>, !.Chk_Nbr = <<chk>>,
              !.File = FileOf(practice, chk)]

PaymentIds == {<<"P1", "C1">>, <<"P2", "C2">>}

GroupKinds ==
    {[BaseRow EXCEPT !.Clm_Sts_Cod = c] :
        c \in {<<"1">>, <<"22">>, <<"22", " ", "(", "Reprocessed", ")">>}}
    \cup {PlaRowA, PlaRowAL6, PlaRowB, MissingEncounterRow}

GroupRows ==
    {Place(r, eft, p[1], p[2]) : r \in GroupKinds, eft \in {<<"E1">>, <<"E2">>}, p \in PaymentIds}
    \cup {Place(r, <<>>, "P1", "C1") : r \in {BaseRow, MissingEncounterRow}}

FIXED_DESCRIPTIONS ==
    {<<"Encounter payer not found.">>, <<"Charge mismatch on amount.">>,
     <<"Multiple payments found for the same line item.">>,
     <<"Service line payments do not sum to claim level payment.">>,
     <<"Charge mismatch on CPT4.">>}

ClassifyRows ==
    {[BaseRow EXCEPT !.Description = d, !.Posting_Sts = x[1], !.Clm_Sts_Cod = x[2]] :
        d \in FIXED_DESCRIPTIONS,
        x \in {<< <<"Posted">>, <<"1">> >>, <<NOT_POSTED, <<"22">> >>}}
    \cup {[BaseRow EXCEPT !.Posting_Sts = NOT_POSTED, !.Clm_Sts_Cod = c] :
            c \in {<<"1">>, <<"22">>}}
    \cup {[BaseRow EXCEPT !.Clm_Sts_Cod = c, !.CPT4 = cpt] :
            c \in {<<"1">>, <<"22">>, <<"2">>, <<"3">>},
            cpt \in {<<"99213">>, <<"99203">>}}
    \cup {[BaseRow EXCEPT !.Clm_Sts_Cod = c, !.CPT4 = <<"99214">>] :
            c \in {<<"1">>, <<"22">>}}
    \cup {[BaseRow EXCEPT !.Bill_Amt = <<"0.00">>, !.Txn_Status = t] :
            t \in {<<>>, <<"Appeal">>}}
    \cup {[BaseRow EXCEPT !.Clm_Sts_Cod = <<"2">>, !.Reason_Cd = <<"PR96">>,
                          !.Remark_Codes = <<"N408">>],
          [BaseRow EXCEPT !.Enc_Nbr = <<"1002">>, !.Clm_Sts_Cod = <<"22">>]}

StatusKinds ==
    {PlaRowA, PlaRowB, BaseRow,
     [BaseRow EXCEPT !.Description = <<"Encounter payer not found.">>],
     [BaseRow EXCEPT !.Description = <<"Charge mismatch on CPT4.">>],
     [BaseRow EXCEPT !.Posting_Sts = NOT_POSTED],
     [BaseRow EXCEPT !.Bill_Amt = <<"0.00">>],
     [BaseRow EXCEPT !.Clm_Sts_Cod = <<"3">>],
     [BaseRow EXCEPT !.Clm_Sts_Cod = <<"22">>]}

StatusRows ==
    {Place(r, <<"E1">>, "P1", "C1") : r \in StatusKinds}
    \cup {Place(r, <<"E1">>, "P2", "C2") :
            r \in {BaseRow, PlaRowA, [BaseRow EXCEPT !.Clm_Sts_Cod = <<"3">>]}}

\* File values: well formed with two amounts, blank, five parts, and a third
\* part that is no number; FileRows has a row without CPT4 as well
FileValues(ws_id, chk) ==
    {FileOf(ws_id, chk),
     <<ws_id, "_", "SB542", "_", "100.00", "_", chk, "_", "ACH", "_", "20250603">>,
     <<>>,
     <<ws_id, "_", "SB542", "_", "35.03", "_", chk, "_", "ACH">>,
     <<ws_id, "_", "SB542", "_", "abc", "_", chk, "_", "ACH", "_", "20250603">>}

FileRows ==
    UNION {{[Place(BaseRow, <<"E1">>, p[1], p[2]) EXCEPT !.File = f] :
              f \in FileValues(p[1], p[2])} : p \in PaymentIds}
    \cup {Place([BaseRow EXCEPT !.CPT4 = <<>>], <<"E1">>, p[1], p[2]) : p \in PaymentIds}

\* a row of a table that has no File column
WithoutFile(r) == [c \in DOMAIN r \ {"File"} |-> r[c]]

NoFileRows == {WithoutFile(Place(BaseRow, <<"E1">>, p[1], p[2])) : p \in PaymentIds}

\* descriptions of Provider-Level-Adjustment rows: the ways an amount is
\* written, and none
PlaDescriptions ==
    {<<PLA_TEXT, " ", "found:", " ", "$12.50">>,
     <<PLA_TEXT, " ", "found:", " ", "$-12.50">>,
     <<PLA_TEXT, " ", "found:", " ", "-$12.50">>,
     <<PLA_TEXT, " ", "found:", " ", "12.50">>,
     <<PLA_TEXT, " ", "found:", " ", "7">>,
     <<PLA_TEXT, " ", "Amt:", " ", "35.03">>,
     <<PLA_TEXT, " ", ":", " ", "7">>,
     <<PLA_TEXT, " ", "-", " ", "35.03">>,
     <<PLA_TEXT, " ", "found:", " ", "L6">>,
     <<PLA_TEXT>>}

PlaRows ==
    {[PlaRowA EXCEPT !.Description = d] : d \in PlaDescriptions}
    \cup {PlaRowB, PlaRowAL6, BaseRow,
          [PlaRowAL6 EXCEPT !.Clm_Nbr = PROVIDER_LVL_ADJ],
          [PlaRowB EXCEPT !.Description = <<PLA_TEXT, " ", "-", " ", "L6">>],
          [PlaRowB EXCEPT !.Description = <<PLA_TEXT, " ", "-", " ", "L6", " ", "$35.03">>]}

\* rows of one EFT that name different payer folders, or none
OrderRows ==
    {[Place(BaseRow, <<"E1">>, p[1], p[2]) EXCEPT !.Clm_Sts_Cod = c, !.PAYER_FOLDER = f] :
        p \in PaymentIds, c \in {<<"1">>, <<"2">>},
        f \in {<<>>, <<"Medicare">>, <<"Aetna">>}}

\* Reason Cd cells: blank, one code, one code with its adjustment amount, and
\* several codes separated by "; "
ReasonCells ==
    {<<>>,
     <<"CO45", " ", "-$20.00">>,
     <<"CO45", " ", "-$0.00">>,
     <<"PR96">>,
     <<"PR96", ";", " ", "CO45">>,
     <<"CO94", ";", " ", "CO45", ";", " ", "PR96">>}

\* rows with reason and remark codes: appeals with and without an adjustment,
\* secondary rows, and a recoupment row of the same CPT4
CodeRows ==
    {[BaseRow EXCEPT !.Txn_Status = t, !.Reason_Cd = c] :
        t \in {<<>>, <<"Appeal">>},
        c \in {<<>>, <<"CO45", " ", "-$20.00">>, <<"CO45", " ", "-$0.00">>}}
    \cup {[BaseRow EXCEPT !.Clm_Sts_Cod = <<"2">>, !.Reason_Cd = c, !.Remark_Codes = m] :
            c \in ReasonCells \ {<<"CO45", " ", "-$20.00">>, <<"CO45", " ", "-$0.00">>},
            m \in {<<>>, <<"N408">>}}
    \cup {[BaseRow EXCEPT !.Clm_Sts_Cod = <<"22">>]}

\* rows of one payment for the service pair (99203, 99213) and the unpaired
\* 99214: primary, recoupment and tertiary rows of encounter 1001, a primary
\* row with a zero bill amount, and a recoupment row of encounter 1002
PairRows ==
    {[BaseRow EXCEPT !.Clm_Sts_Cod = c, !.CPT4 = cpt] :
        c \in {<<"1">>, <<"22">>, <<"3">>},
        cpt \in {<<"99213">>, <<"99203">>, <<"99214">>}}
    \cup {[BaseRow EXCEPT !.Bill_Amt = <<"0.00">>],
          [BaseRow EXCEPT !.Enc_Nbr = <<"1002">>, !.Clm_Sts_Cod = <<"22">>]}

\* rows for the encounters-to-check counts of two EFTs: a tertiary row
\* (one encounter to check), a tertiary row of another encounter, and a
\* primary row (none to check)
TertiaryRow == [BaseRow EXCEPT !.Clm_Sts_Cod = <<"3">>]

MaxRows ==
    {Place(r, <<"E1">>, p[1], p[2]) : r \in {TertiaryRow, BaseRow}, p \in PaymentIds}
    \cup {Place(TertiaryRow, <<"E2">>, p[1], p[2]) : p \in PaymentIds}
    \cup {Place([TertiaryRow EXCEPT !.Enc_Nbr = <<"1002">>], <<"E2">>, "P1", "C1")}

\* rows of the table before the scrub step
ScrubRow(chk, description) ==
    [Chk_Nbr |-> <<chk>>, Description |-> description, Pat_Name |-> <<>>,
     Clm_Sts_Cod |-> <<>>, Enc_Nbr |-> <<>>, Pol_Nbr |-> <<>>]

InterestRow(chk, description) ==
    [ScrubRow(chk, description) EXCEPT !.Pat_Name = <<"DOE">>, !.Clm_Sts_Cod = <<"1">>]

ScrubRows ==
    {ScrubRow("C1", <<PLA_TEXT, " ", "L6", " ", "$12.50">>),
     ScrubRow("C1", <<PLA_TEXT, " ", "L6">>),
     InterestRow("C1", <<INTEREST_TEXT, " ", "$12.50">>),
     InterestRow("C1", <<INTEREST_TEXT, " ", "$6.25">>),
     InterestRow("C1", <<INTEREST_TEXT>>),
     [InterestRow("C1", <<>>) EXCEPT !.Enc_Nbr = <<"1001">>, !.Pol_Nbr = <<"POL1">>],
     ScrubRow("C2", <<PLA_TEXT, " ", "L6", " ", "$12.50">>),
     InterestRow("C2", <<INTEREST_TEXT, " ", "$12.50">>)}

\* rows for the comparison of the two classifiers: CPT4 90471 is in no
\* service pair, 99213 is
AgreeBase == [BaseRow EXCEPT !.CPT4 = <<"90471">>]

AgreeRows ==
    {[AgreeBase EXCEPT !.Description = d] : d \in FIXED_DESCRIPTIONS}
    \cup {[AgreeBase EXCEPT !.Clm_Sts_Cod = c] :
            c \in {<<"1">>, <<"22">>, <<"2">>, <<"3">>, <<"21">>}}
    \cup {[AgreeBase EXCEPT !.Bill_Amt = <<"0.00">>, !.Txn_Status = t] :
            t \in {<<>>, <<"Appeal">>}}
    \cup {[AgreeBase EXCEPT !.Posting_Sts = NOT_POSTED],
          [AgreeBase EXCEPT !.Clm_Sts_Cod = <<"2">>, !.Reason_Cd = <<"PR96">>,
                            !.Remark_Codes = <<"N408">>],
          [AgreeBase EXCEPT !.Clm_Sts_Cod = <<"2">>,
                            !.Reason_Cd = <<"CO94", ";", " ", "CO45", ";", " ", "PR96">>],
          [AgreeBase EXCEPT !.Enc_Nbr = <<"1002">>, !.Clm_Sts_Cod = <<"22">>],
          [BaseRow EXCEPT !.Clm_Sts_Cod = <<"22">>],
          [BaseRow EXCEPT !.Clm_Sts_Cod = <<"3">>]}

\* all tables of at most n rows
Tables(rows, n) == UNION {[1..k -> rows] : k \in 0..n}

(***************************************************************************)
(* DataCleaner (scrubber.py): interest payments and L6 Provider Level      *)
(* Adjustments of a check.  A row of the table is addressed by its index.  *)
(***************************************************************************)
ScrubDollarTokens == {"$12.50", "$6.25"}

ScrubDollarCents(t) == IF t = "$12.50" THEN 1250 ELSE 625

\* re.search of the text followed by anything and a $ amount with decimals:
\* the last such amount of the description
scrub_amount(description) ==
    LET hits == {k \in 2..Len(description) : description[k] \in ScrubDollarTokens}
    IN IF hits = {} THEN [found |-> FALSE, cents |-> 0]
       ELSE [found |-> TRUE,
             cents |-> ScrubDollarCents(description[CHOOSE k \in hits : \A j \in hits : j <= k])]

\* the indices of the interest rows of the check, in row order
interest_rows_of(rows, chk_nbr) ==
    SelectSeq([i \in 1..Len(rows) |-> i],
              LAMBDA i : /\ rows[i].Chk_Nbr = chk_nbr
                         /\ StartsWith(rows[i].Description, <<INTEREST_TEXT>>))

\* the indices of the L6 PLA rows of the check, in row order
l6_pla_rows_of(rows, chk_nbr) ==
    SelectSeq([i \in 1..Len(rows) |-> i],
              LAMBDA i : /\ rows[i].Chk_Nbr = chk_nbr
                         /\ StartsWith(rows[i].Description, <<PLA_TEXT>>)
                         /\ InSeq("L6", rows[i].Description))

\* _calculate_interest_total: None when an amount cannot be extracted
calculate_interest_total(rows, interest_rows) ==
    IF \E k \in 1..Len(interest_rows) : ~scrub_amount(rows[interest_rows[k]].Description).found
    THEN [ok |-> FALSE, cents |-> 0]
    ELSE [ok |-> TRUE,
          cents |-> SumSeq([k \in 1..Len(interest_rows) |->
                              scrub_amount(rows[interest_rows[k]].Description).cents])]

\* _process_check_group reaches _update_pla_row for the check
pair_found(rows, chk_nbr) ==
    LET interest_rows == interest_rows_of(rows, chk_nbr)
        pla_rows == l6_pla_rows_of(rows, chk_nbr)
    IN /\ Len(pla_rows) = 1
       /\ Len(interest_rows) > 0
       /\ scrub_amount(rows[pla_rows[1]].Description).found
       /\ calculate_interest_total(rows, interest_rows).ok
       /\ scrub_amount(rows[pla_rows[1]].Description).cents =
            calculate_interest_total(rows, interest_rows).cents

\* _update_pla_row up to its call of _extract_encounter_policy, which has no
\* return statement: unpacking its None raises TypeError
update_pla_row(rows, pla_row, interest_row) ==
    [rows EXCEPT ![pla_row].Pat_Name = rows[interest_row].Pat_Name,
                 ![pla_row].Clm_Sts_Cod = rows[interest_row].Clm_Sts_Cod]

\* the check numbers in the order of groupby
sorted_chk_nbrs(rows) == sort_strings(Unique([i \in 1..Len(rows) |-> rows[i].Chk_Nbr]))

\* process_interest_and_pla_rows: the table it leaves and whether it raised
process_interest_and_pla_rows(rows) ==
    LET chks == sorted_chk_nbrs(rows)
        found == {k \in 1..Len(chks) : pair_found(rows, chks[k])}
    IN IF found = {} THEN [raised |-> FALSE, df |-> rows]
       ELSE LET chk_nbr == chks[CHOOSE k \in found : \A j \in found : k <= j]
            IN [raised |-> TRUE,
                df |-> update_pla_row(rows, l6_pla_rows_of(rows, chk_nbr)[1],
                                      interest_rows_of(rows, chk_nbr)[1])]

(***************************************************************************)
(* The balancing rules of qa_it_shoulds.py, which the report prints for    *)
(* every payment.  The rules are written for the posting run that follows  *)
(* the report: that run finds is_balanced of each payment and applies the  *)
(* rules to it.  is_balanced is not computed in this package: it is an     *)
(* input of the rules here.                                                *)
(***************************************************************************)

\* the balancing rules that close the batch of a balanced payment of a split
\* EFT whatever its siblings
balancing_own_balance(payment_is_balanced, is_split, payments_is_balanced) ==
    IF payment_is_balanced
    THEN [posted |-> "Y", note |-> "Balanced-Batch Closed", run_status |-> ""]
    ELSE [posted |-> "N", note |-> "Not Balanced-Review", run_status |-> "Failed"]

\* balancing and not_balanced_handling for one payment; payments_is_balanced
\* is the set of is_balanced of the payments with the same eft_num
balancing(payment_is_balanced, is_split, payments_is_balanced) ==
    IF payment_is_balanced /\ ~is_split
    THEN [posted |-> "Y", note |-> "Balanced-Batch Closed", run_status |-> ""]
    ELSE IF payment_is_balanced /\ is_split
    THEN IF \A b \in payments_is_balanced : b
         THEN [posted |-> "Y", note |-> "Balanced-Batch Closed", run_status |-> ""]
         ELSE [posted |-> "Y", note |-> "Balanced-Batch Not Closed", run_status |-> ""]
    ELSE [posted |-> "N", note |-> "Not Balanced-Review", run_status |-> "Failed"]

(***************************************************************************)
(* The run: PhilPipeline.run_full_pipeline, steps 4 to 8                   *)
(***************************************************************************)
InitRun(tables, payers) ==
    /\ pc = "start"
    /\ file_rows \in tables
    /\ payer_name \in payers
    /\ df = <<>>
    /\ missing_encounter_efts = <<>>
    /\ data_object = <<>>
    /\ analytics_results = <<>>
    /\ report = <<>>
    /\ stats = <<>>
    /\ is_balanced = <<>>
    /\ posting_results = <<>>
    /\ scrub_input = <<>>
    /\ scrub_df = <<>>

InitGroup == InitRun(Tables(GroupRows, MaxRowsGroup), {<<"Aetna">>})

InitClassify == InitRun(Tables(ClassifyRows, MaxRowsClassify), {<<"Aetna">>, <<"Medicare">>})

InitStatus == InitRun(Tables(StatusRows, MaxRowsStatus), {<<"Aetna">>})

InitPla == InitRun(Tables(PlaRows, MaxRowsPla), {<<"Aetna">>})

InitOrder == InitRun(Tables(OrderRows, MaxRowsOrder), {<<"Aetna">>})

InitAgree == InitRun(Tables(AgreeRows, MaxRowsAgree), {<<"Aetna">>, <<"Medicare">>})

InitCodes == InitRun(Tables(CodeRows, MaxRowsCodes), {<<"Aetna">>, <<"Medicare">>})

InitPairs == InitRun(Tables(PairRows, MaxRowsPairs), {<<"Aetna">>})

InitMax == InitRun(Tables(MaxRows, MaxRowsMax), {<<"Aetna">>})

\* the scrub step, upstream of the run: the table DataCleaner is given
InitScrub ==
    /\ pc = "scrub"
    /\ scrub_input \in Tables(ScrubRows, MaxRowsScrub)
    /\ scrub_df = scrub_input
    /\ file_rows = <<>>
    /\ payer_name = <<"Aetna">>
    /\ df = <<>>
    /\ missing_encounter_efts = <<>>
    /\ data_object = <<>>
    /\ analytics_results = <<>>
    /\ report = <<>>
    /\ stats = <<>>
    /\ is_balanced = <<>>
    /\ posting_results = <<>>

InitFile ==
    InitRun(Tables(FileRows, MaxRowsFile) \cup Tables(NoFileRows, MaxRowsFile), {<<"Aetna">>})

\* ExcelDataObjectCreator.__init__: _load_data, which ends with
\* _identify_and_remove_missing_encounter_efts
LoadData ==
    /\ pc = "start"
    /\ missing_encounter_efts' = find_missing_encounter_efts(file_rows)
    /\ df' = remove_missing_encounter_efts(file_rows, find_missing_encounter_efts(file_rows))
    /\ pc' = "loaded"
    /\ UNCHANGED <<is_balanced, posting_results, scrub_input, scrub_df>>
    /\ UNCHANGED <<file_rows, payer_name, data_object, analytics_results, report, stats>>

CreateDataObject ==
    /\ pc = "loaded"
    /\ data_object' = create_data_object(df, payer_name)
    /\ pc' = "created"
    /\ UNCHANGED <<is_balanced, posting_results, scrub_input, scrub_df>>
    /\ UNCHANGED <<file_rows, payer_name, df, missing_encounter_efts, analytics_results,
                   report, stats>>

TagEncounters ==
    /\ pc = "created"
    /\ data_object' = tag_encounters(data_object)
    /\ pc' = "enc_tagged"
    /\ UNCHANGED <<is_balanced, posting_results, scrub_input, scrub_df>>
    /\ UNCHANGED <<file_rows, payer_name, df, missing_encounter_efts, analytics_results,
                   report, stats>>

\* the payment tagging step not waiting for the encounter tagging step
TagPaymentsEarly ==
    /\ pc \in {"created", "enc_tagged"}
    /\ data_object' = tag_payments(data_object)
    /\ pc' = "pmt_tagged"
    /\ UNCHANGED <<is_balanced, posting_results, scrub_input, scrub_df>>
    /\ UNCHANGED <<file_rows, payer_name, df, missing_encounter_efts, analytics_results,
                   report, stats>>

TagPayments ==
    /\ pc = "enc_tagged"
    /\ data_object' = tag_payments(data_object)
    /\ pc' = "pmt_tagged"
    /\ UNCHANGED <<is_balanced, posting_results, scrub_input, scrub_df>>
    /\ UNCHANGED <<file_rows, payer_name, df, missing_encounter_efts, analytics_results,
                   report, stats>>

RunAnalytics ==
    /\ pc = "pmt_tagged"
    /\ analytics_results' = analyze_mixed_post_payments(data_object)
    /\ pc' = "analyzed"
    /\ UNCHANGED <<is_balanced, posting_results, scrub_input, scrub_df>>
    /\ UNCHANGED <<file_rows, payer_name, df, missing_encounter_efts, data_object,
                   report, stats>>

GenerateMarkdown ==
    /\ pc = "analyzed"
    /\ report' = generate_efts_markdown(data_object, missing_encounter_efts, analytics_results)
    /\ stats' = generate_summary_stats(data_object, missing_encounter_efts)
    /\ pc' = "done"
    /\ UNCHANGED <<is_balanced, posting_results, scrub_input, scrub_df>>
    /\ UNCHANGED <<file_rows, payer_name, df, missing_encounter_efts, data_object,
                   analytics_results>>

\* a step raises: run_full_pipeline catches the exception, raises
\* PhilAnalyticsError and runs none of the steps that follow
Raise ==
    /\ pc \in {"start", "loaded", "created", "enc_tagged", "pmt_tagged", "analyzed"}
    /\ pc' = "failed"
    /\ UNCHANGED <<is_balanced, posting_results, scrub_input, scrub_df>>
    /\ UNCHANGED <<file_rows, payer_name, df, missing_encounter_efts, data_object,
                   analytics_results, report, stats>>

Next ==
    \/ LoadData
    \/ CreateDataObject
    \/ TagEncounters
    \/ TagPayments
    \/ RunAnalytics
    \/ GenerateMarkdown
    \/ Raise

\* a caller that classifies the classified data object once more:
\* EncounterTagger.tag_encounters, then PaymentTagger.tag_payments
RetagEncounters ==
    /\ pc = "pmt_tagged"
    /\ data_object' = tag_encounters(data_object)
    /\ pc' = "enc_retagged"
    /\ UNCHANGED <<is_balanced, posting_results, scrub_input, scrub_df>>
    /\ UNCHANGED <<file_rows, payer_name, df, missing_encounter_efts, analytics_results,
                   report, stats>>

RetagPayments ==
    /\ pc = "enc_retagged"
    /\ data_object' = tag_payments(data_object)
    /\ pc' = "pmt_retagged"
    /\ UNCHANGED <<is_balanced, posting_results, scrub_input, scrub_df>>
    /\ UNCHANGED <<file_rows, payer_name, df, missing_encounter_efts, analytics_results,
                   report, stats>>

NextTwice ==
    \/ Next
    \/ RetagEncounters
    \/ RetagPayments

\* the payments of the data object: EFT index and payment index
PaymentKeys ==
    UNION {{<<e, i>> : i \in 1..Len(data_object[e].payments)} : e \in 1..Len(data_object)}

\* the payments WHERE {payment.eft_num} is the same
SameEft(k) == {j \in PaymentKeys : data_object[j[1]].eft_num = data_object[k[1]].eft_num}

NOT_HANDLED == [posted |-> "", note |-> "", run_status |-> ""]

\* the posting run finds each payment of the report balanced or not
Reconcile ==
    /\ pc = "done"
    /\ is_balanced = <<>>
    /\ PaymentKeys # {}
    /\ is_balanced' \in [PaymentKeys -> BOOLEAN]
    /\ posting_results' = [k \in PaymentKeys |-> NOT_HANDLED]
    /\ UNCHANGED <<pc, file_rows, payer_name, df, missing_encounter_efts, data_object,
                   analytics_results, report, stats, scrub_input, scrub_df>>

\* the balancing rules applied to one payment
Balancing(k) ==
    /\ k \in DOMAIN posting_results
    /\ posting_results[k] = NOT_HANDLED
    /\ posting_results' =
         [posting_results EXCEPT
            ![k] = balancing(is_balanced[k], data_object[k[1]].is_split,
                             {is_balanced[j] : j \in SameEft(k)})]
    /\ UNCHANGED <<pc, file_rows, payer_name, df, missing_encounter_efts, data_object,
                   analytics_results, report, stats, is_balanced, scrub_input, scrub_df>>

\* the pipeline followed by the posting run its report is written for
NextBalance ==
    \/ Next
    \/ Reconcile
    \/ \E k \in DOMAIN posting_results : Balancing(k)

\* DataCleaner.process_interest_and_pla_rows on the table
ProcessInterestAndPlaRows ==
    /\ pc = "scrub"
    /\ scrub_df' = process_interest_and_pla_rows(scrub_df).df
    /\ pc' = IF process_interest_and_pla_rows(scrub_df).raised
             THEN "scrub_failed" ELSE "scrubbed"
    /\ UNCHANGED <<file_rows, payer_name, df, missing_encounter_efts, data_object,
                   analytics_results, report, stats, is_balanced, posting_results,
                   scrub_input>>

NextScrub == ProcessInterestAndPlaRows

SpecGroup == InitGroup /\ [][Next]_vars

SpecClassify == InitClassify /\ [][Next]_vars

SpecStatus == InitStatus /\ [][Next]_vars

SpecFile == InitFile /\ [][Next]_vars

SpecPla == InitPla /\ [][Next]_vars

SpecOrder == InitOrder /\ [][Next]_vars

SpecCodes == InitCodes /\ [][Next]_vars

SpecPairs == InitPairs /\ [][Next]_vars

SpecMax == InitMax /\ [][Next]_vars

SpecAgree == InitAgree /\ [][Next]_vars

SpecScrub == InitScrub /\ [][NextScrub]_vars

SpecTwice == InitStatus /\ [][NextTwice]_vars

SpecBalance == InitGroup /\ [][NextBalance]_vars

Spec == SpecStatus

(***************************************************************************)
(* Properties                                                              *)
(***************************************************************************)
Created == pc \in {"created", "enc_tagged", "pmt_tagged", "analyzed", "done"}
EncountersTagged == pc \in {"enc_tagged", "pmt_tagged", "analyzed", "done"}
PaymentsTagged == pc \in {"pmt_tagged", "analyzed", "done"}

Range(f) == {f[i] : i \in DOMAIN f}

AllEfts == Range(data_object)
AllPayments == UNION {Range(eft.payments) : eft \in AllEfts}

\* the tags recorded for an encounter in encs_to_check
RecordedTypes(payment, enc) ==
    UNION {Range(d.types) : d \in {x \in Range(payment.encs_to_check) : x.key = enc.key}}

RecordedTags(payment, enc) == {t.tag : t \in RecordedTypes(payment, enc)}

\* tag is recorded for the encounter with the service's CPT4 among its codes
Tagged(payment, enc, svc, tag) ==
    \E t \in RecordedTypes(payment, enc) : t.tag = tag /\ svc.cpt4 \in t.cpt4s

\* the union of the tags of all encounters to check of the payment
TagsToCheck(payment) ==
    {t.tag : t \in UNION {Range(d.types) : d \in Range(payment.encs_to_check)}}

ClosedTagSet ==
    {"22_no_123", "22_with_123", "appeal_has_adj", "chg_equal_adj", "secondary_n408_pr96",
     "secondary_co94_oa94", "secondary_mc_tricare_dshs", "tertiary", "enc_payer_not_found",
     "multiple_to_one", "other_not_posted", "svc_no_match_clm", "chg_mismatch_cpt4"}

FixedDescriptionTag(description) ==
    CASE description = <<"Encounter payer not found.">> -> "enc_payer_not_found"
      [] description = <<"Charge mismatch on amount.">> -> "multiple_to_one"
      [] description = <<"Multiple payments found for the same line item.">> -> "multiple_to_one"
      [] description = <<"Service line payments do not sum to claim level payment.">>
           -> "svc_no_match_clm"
      [] description = <<"Charge mismatch on CPT4.">> -> "chg_mismatch_cpt4"

\* C1: every service gets no tag or exactly one tag of the closed 13-tag set,
\* and the first matching rule wins: a service with one of the five fixed
\* descriptions gets that description's tag whatever its other fields, and a
\* Not Posted service without such a description gets other_not_posted
\* whatever its claim status.  Read off encs_to_check after tag_encounters:
\* the recorded tags are of the closed set, an encounter of one service has at
\* most one tag, and the expected tag is recorded with the service's CPT4 (and
\* is the only tag when the encounter has that one service).
C1_FirstMatchingRuleWins ==
    EncountersTagged =>
        \A payment \in AllPayments : \A enc \in Range(payment.encounters) :
            /\ RecordedTags(payment, enc) \subseteq ClosedTagSet
            /\ Len(enc.services) = 1 => Cardinality(RecordedTags(payment, enc)) <= 1
            /\ \A svc \in Range(enc.services) :
                 LET expected ==
                       IF svc.description \in FIXED_DESCRIPTIONS
                       THEN FixedDescriptionTag(svc.description)
                       ELSE IF svc.posting_sts = NOT_POSTED THEN "other_not_posted"
                       ELSE NONE
                 IN expected # NONE =>
                      /\ Tagged(payment, enc, svc, expected)
                      /\ Len(enc.services) = 1 => RecordedTags(payment, enc) = {expected}

\* C1 witness: a Not Posted status-22 service with a fixed description carries
\* the description's tag and nothing else
C1_Witness ==
    /\ pc = "enc_tagged"
    /\ \E payment \in AllPayments : \E enc \in Range(payment.encounters) :
         /\ Len(enc.services) = 1
         /\ enc.services[1].description = <<"Charge mismatch on CPT4.">>
         /\ enc.services[1].posting_sts = NOT_POSTED
         /\ enc.services[1].clm_sts = <<"22">>
         /\ RecordedTags(payment, enc) = {"chg_mismatch_cpt4"}

NotPostedTags ==
    {"enc_payer_not_found", "multiple_to_one", "other_not_posted", "svc_no_match_clm",
     "chg_mismatch_cpt4"}

HasPlas(payment) == payment.plas.pla_l6 # <<>> \/ payment.plas.pla_other # <<>>

\* C2: after tag_payments a payment is Mixed Post if and only if at least one
\* tag of its encs_to_check is in the not-posted set, with or without PLAs
C2_MixedPostIffNotPostedTag ==
    PaymentsTagged =>
        \A payment \in AllPayments :
            (payment.status = <<"Mixed", " ", "Post">>)
                <=> (TagsToCheck(payment) \cap NotPostedTags # {})

\* C2 witness: a payment with a PLA whose tags include chg_mismatch_cpt4 is
\* Mixed Post
C2_Witness ==
    /\ pc = "pmt_tagged"
    /\ \E payment \in AllPayments :
         /\ HasPlas(payment)
         /\ "chg_mismatch_cpt4" \in TagsToCheck(payment)
         /\ payment.status = <<"Mixed", " ", "Post">>

\* the witness of the scenario of C2: the only tag is enc_payer_not_found
C2_OnlyPayerNotFound ==
    /\ pc = "pmt_tagged"
    /\ \E payment \in AllPayments :
         /\ TagsToCheck(payment) = {"enc_payer_not_found"}
         /\ payment.status = <<"Mixed", " ", "Post">>

\* C3: after tag_payments a payment without encounters to check is Immediate
\* Post when both PLA lists are empty and PLA Only otherwise, and no payment
\* with encounters to check has either status
C3_ImmediatePostAndPlaOnly ==
    PaymentsTagged =>
        \A payment \in AllPayments :
            IF payment.encs_to_check = <<>>
            THEN payment.status = IF HasPlas(payment) THEN <<"PLA", " ", "Only">>
                                  ELSE <<"Immediate", " ", "Post">>
            ELSE payment.status \notin {<<"PLA", " ", "Only">>, <<"Immediate", " ", "Post">>}

\* C3 witness: a payment whose only PLA is an L6 one and that has no
\* encounters to check is PLA Only
C3_Witness ==
    /\ pc = "pmt_tagged"
    /\ \E payment \in AllPayments :
         /\ payment.plas.pla_l6 # <<>>
         /\ payment.plas.pla_other = <<>>
         /\ payment.encs_to_check = <<>>
         /\ payment.status = <<"PLA", " ", "Only">>

QuickPostTags == {"appeal_has_adj", "chg_equal_adj", "secondary_n408_pr96"}

FullPostTags ==
    {"secondary_co94_oa94", "secondary_mc_tricare_dshs", "tertiary", "22_no_123",
     "22_with_123"}

C4_QuickPostReached ==
    /\ pc = "pmt_tagged"
    /\ \E payment \in AllPayments :
         /\ TagsToCheck(payment) = {"chg_equal_adj"}
         /\ payment.status = <<"Quick", " ", "Post">>

\* a payment with a quick-post tag and a tertiary tag is Full Post
C4_FullPostWithQuickTag ==
    /\ pc = "pmt_tagged"
    /\ \E payment \in AllPayments :
         /\ TagsToCheck(payment) = {"chg_equal_adj", "tertiary"}
         /\ payment.status = <<"Full", " ", "Post">>

\* the entries of the report: the payments listed under a status of the
\* not-split section and under an EFT of the split section
ReportEntries ==
    UNION {Range(g.payments) : g \in Range(report.not_split.groups)}
    \cup UNION {Range(e.payments) : e \in Range(report.split.efts)}

Listed(eft, payment) ==
    \E x \in ReportEntries :
        /\ x.eft_num = eft.eft_num
        /\ x.payment_key = payment.key
        /\ x.status = payment.status

\* C5: every payment with status Unknown is listed with its status in the EFT
\* report, for not-split and for split EFTs, and counted in the statistics
C5_UnknownIsReported ==
    pc = "done" =>
        \A eft \in AllEfts : \A payment \in Range(eft.payments) :
            payment.status = <<"Unknown">> =>
                /\ Listed(eft, payment)
                /\ <<"Unknown">> \in DOMAIN stats.payment_statuses

\* what holds of C5: the Unknown payments of split EFTs are listed, and all
\* Unknown payments are counted
C5_UnknownOfSplitEftIsReported ==
    pc = "done" =>
        \A eft \in AllEfts : \A payment \in Range(eft.payments) :
            payment.status = <<"Unknown">> =>
                /\ eft.is_split => Listed(eft, payment)
                /\ <<"Unknown">> \in DOMAIN stats.payment_statuses

\* an Unknown payment of a split EFT in the finished report
C5_UnknownInSplitEft ==
    /\ pc = "done"
    /\ \E eft \in AllEfts : \E payment \in Range(eft.payments) :
         eft.is_split /\ payment.status = <<"Unknown">> /\ Listed(eft, payment)

\* the services of the encounters of the payment that have the encounter
\* number and a primary, secondary or tertiary status
PstServices(payment, num) ==
    UNION {Range(e.services) :
             e \in {x \in Range(payment.encounters) :
                      /\ x.num = num
                      /\ \/ x.status \in {<<"1">>, <<"19">>, <<"2">>, <<"20">>, <<"21">>}
                         \/ (x.status # <<>> /\ Head(x.status) \in {"3", "30"})}}

PstCpt4s(payment, num) == {svc.cpt4 : svc \in PstServices(payment, num)}

PairedCpt4(cpt4) ==
    IF \E q \in SERVICE_PAIRS : cpt4 \in {<<q[1]>>, <<q[2]>>}
    THEN {IF <<q[1]>> = cpt4 THEN <<q[2]>> ELSE <<q[1]>> :
            q \in {x \in SERVICE_PAIRS : cpt4 \in {<<x[1]>>, <<x[2]>>}}}
    ELSE {}

\* the status-22 services that reach the 22_with_123 / 22_no_123 decision
ReachesReversalRule(payment, enc, svc) ==
    /\ svc.clm_sts = <<"22">>
    /\ svc.description \notin FIXED_DESCRIPTIONS
    /\ svc.posting_sts # NOT_POSTED
    /\ PairedCpt4(svc.cpt4) \cap PstCpt4s(payment, enc.num) = {}

\* C6: a status-22 service that is not caught by the description or Not
\* Posted rules and has no service-pair exception is tagged 22_with_123 iff
\* its CPT4 is a CPT4 of a primary, secondary or tertiary encounter of the
\* same payment and encounter number, and 22_no_123 otherwise
C6_ReversalWithOrWithout123 ==
    EncountersTagged =>
        \A payment \in AllPayments : \A enc \in Range(payment.encounters) :
            \A svc \in Range(enc.services) :
                ReachesReversalRule(payment, enc, svc) =>
                    IF svc.cpt4 \in PstCpt4s(payment, enc.num)
                    THEN /\ Tagged(payment, enc, svc, "22_with_123")
                         /\ ~Tagged(payment, enc, svc, "22_no_123")
                    ELSE /\ Tagged(payment, enc, svc, "22_no_123")
                         /\ ~Tagged(payment, enc, svc, "22_with_123")

\* C6 witness: encounters 1001/22 and 1001/1 with the same CPT4 99213, the
\* status-22 service tagged 22_with_123
C6_Witness ==
    /\ pc = "enc_tagged"
    /\ \E payment \in AllPayments :
         \E e22 \in Range(payment.encounters) : \E e1 \in Range(payment.encounters) :
            /\ e22.num = <<"1001">> /\ e22.status = <<"22">>
            /\ e1.num = <<"1001">> /\ e1.status = <<"1">>
            /\ Len(e22.services) = 1 /\ e22.services[1].cpt4 = <<"99213">>
            /\ Len(e1.services) = 1 /\ e1.services[1].cpt4 = <<"99213">>
            /\ RecordedTags(payment, e22) = {"22_with_123"}

\* a status-22 service whose CPT4 occurs only under another encounter number
\* is tagged 22_no_123
C6_Without123Reached ==
    /\ pc = "enc_tagged"
    /\ \E payment \in AllPayments :
         \E e22 \in Range(payment.encounters) : \E e1 \in Range(payment.encounters) :
            /\ e22.num = <<"1002">> /\ e22.status = <<"22">>
            /\ e1.num = <<"1001">> /\ e1.status = <<"1">>
            /\ Len(e1.services) = 1 /\ e1.services[1].cpt4 = <<"99213">>
            /\ RecordedTags(payment, e22) = {"22_no_123"}

\* the non-blank EFT numbers of the input table
InputEfts == {r.EFT_NUM : r \in Range(file_rows)} \ {<<>>}

HasMissingEncounterRow(eft_num) ==
    \E r \in Range(file_rows) : r.EFT_NUM = eft_num /\ r.Description = ENCOUNTER_NOT_FOUND

DataObjectKeys == {eft.eft_num : eft \in AllEfts}

\* C7: every non-blank EFT number with an "Encounter not found." row is in
\* missing_encounter_efts and not in the data object, none of its rows is left
\* to build payments from, every other non-blank EFT number is a key of the
\* data object, and the excluded list and the keys are disjoint
C7_MissingEncounterEftsExcluded ==
    Created =>
        /\ \A eft_num \in InputEfts :
             IF HasMissingEncounterRow(eft_num)
             THEN /\ eft_num \in Range(missing_encounter_efts)
                  /\ eft_num \notin DataObjectKeys
                  /\ \A r \in Range(df) : r.EFT_NUM # eft_num
             ELSE eft_num \in DataObjectKeys
        /\ Range(missing_encounter_efts) \cap DataObjectKeys = {}

\* C7 witness: an EFT with an "Encounter not found." row and a further row in
\* another payment is excluded as a whole
C7_Witness ==
    /\ pc = "created"
    /\ \E r1 \in Range(file_rows) : \E r2 \in Range(file_rows) :
         /\ r1.EFT_NUM = r2.EFT_NUM
         /\ r1.Description = ENCOUNTER_NOT_FOUND
         /\ r2.Description # ENCOUNTER_NOT_FOUND
         /\ pmt_num_of(r1) # pmt_num_of(r2)
         /\ r1.EFT_NUM \in Range(missing_encounter_efts)
         /\ r1.EFT_NUM \notin DataObjectKeys

\* C8 as claimed: is_split = (number of payments > 1) in every state in which
\* the EFT objects exist, from the return of create_data_object on
C8_IsSplitAlways ==
    Created => \A eft \in AllEfts : eft.is_split = (Len(eft.payments) > 1)

\* C8 as amended: is_split = (number of payments > 1) once tag_payments has
\* run, and while analytics and the report run; from create_data_object until
\* tag_payments it is False for every EFT
C8_IsSplitAfterTagPayments ==
    /\ PaymentsTagged => \A eft \in AllEfts : eft.is_split = (Len(eft.payments) > 1)
    /\ (Created /\ ~PaymentsTagged) => \A eft \in AllEfts : ~eft.is_split

\* C8 witness: a tagged EFT with two payments, split
C8_Witness ==
    /\ pc = "pmt_tagged"
    /\ \E eft \in AllEfts : Len(eft.payments) = 2 /\ eft.is_split

\* a tagged EFT with one payment, not split
C8_NotSplitReached ==
    /\ pc = "pmt_tagged"
    /\ \E eft \in AllEfts : Len(eft.payments) = 1 /\ ~eft.is_split

\* the claim-status code without a parenthetical suffix
BareStatus(clm_sts) ==
    IF \E i \in 1..Len(clm_sts) : clm_sts[i] = "("
    THEN LET i == CHOOSE k \in 1..Len(clm_sts) :
                    clm_sts[k] = "(" /\ \A j \in 1..(k - 1) : clm_sts[j] # "("
         IN IF i > 1 /\ clm_sts[i - 1] = " " THEN SubSeq(clm_sts, 1, i - 2)
            ELSE SubSeq(clm_sts, 1, i - 1)
    ELSE clm_sts

\* the rows of the dataframe of the payment
RowsOfPayment(eft, payment) ==
    SelectSeq(df, LAMBDA r : r.EFT_NUM = eft.eft_num /\ pmt_num_of(r) = payment.key)

\* C9: within a payment no two encounters have the same (num, status); the
\* rows with a non-blank encounter number are grouped by encounter number and
\* bare claim-status code, one encounter per group
C9_EncounterKeyUnique ==
    Created =>
        \A eft \in AllEfts : \A payment \in Range(eft.payments) :
            /\ \A i \in 1..Len(payment.encounters) : \A j \in 1..Len(payment.encounters) :
                 (/\ payment.encounters[i].num = payment.encounters[j].num
                  /\ payment.encounters[i].status = payment.encounters[j].status) => i = j
            /\ \A r \in Range(RowsOfPayment(eft, payment)) :
                 r.Enc_Nbr # <<>> =>
                    \E enc \in Range(payment.encounters) :
                        enc.num = r.Enc_Nbr /\ enc.status = BareStatus(r.Clm_Sts_Cod)

\* what holds of C9: the encounters of a payment have distinct keys, and
\* every row with an encounter number has an encounter with its number and
\* bare status
C9_EncounterDictKeyUnique ==
    Created =>
        \A eft \in AllEfts : \A payment \in Range(eft.payments) :
            /\ \A i \in 1..Len(payment.encounters) : \A j \in 1..Len(payment.encounters) :
                 payment.encounters[i].key = payment.encounters[j].key => i = j
            /\ \A r \in Range(RowsOfPayment(eft, payment)) :
                 r.Enc_Nbr # <<>> =>
                    \E enc \in Range(payment.encounters) :
                        enc.num = r.Enc_Nbr /\ enc.status = BareStatus(r.Clm_Sts_Cod)

ClaimConditionA(r) ==
    r.Enc_Nbr = <<>> /\ \E i \in 1..Len(r.Description) : r.Description[i] = PLA_TEXT

ClaimConditionB(r) ==
    /\ r.Clm_Nbr = <<"Provider Lvl Adj">>
    /\ r.Enc_Nbr # <<>>
    /\ \E i \in 1..Len(r.Description) : r.Description[i] = "L6"

\* C10: the entries of pla_l6 are, in row order, the PLA rows of the payment
\* that meet Condition B, and the entries of pla_other the PLA rows that do
\* not: every PLA row has one entry in exactly one of the lists
C10_PlaListsPartitionPlaRows ==
    Created =>
        \A eft \in AllEfts : \A payment \in Range(eft.payments) :
            LET rows == RowsOfPayment(eft, payment)
                l6_rows == SelectSeq(rows, ClaimConditionB)
                other_rows == SelectSeq(rows,
                    LAMBDA r : ClaimConditionA(r) /\ ~ClaimConditionB(r))
            IN /\ Len(payment.plas.pla_l6) = Len(l6_rows)
               /\ Len(payment.plas.pla_other) = Len(other_rows)
               /\ \A i \in 1..Len(l6_rows) :
                    payment.plas.pla_l6[i] = clean_pla_description(l6_rows[i].Description)
               /\ \A i \in 1..Len(other_rows) :
                    payment.plas.pla_other[i] = clean_pla_description(other_rows[i].Description)

\* C10 witness: a payment with a Condition B row and a Condition A row that
\* mentions L6 has one entry in each list
C10_Witness ==
    /\ pc = "created"
    /\ \E eft \in AllEfts : \E payment \in Range(eft.payments) :
         /\ \E r \in Range(RowsOfPayment(eft, payment)) : ClaimConditionB(r)
         /\ \E r \in Range(RowsOfPayment(eft, payment)) :
              ClaimConditionA(r) /\ \E i \in 1..Len(r.Description) : r.Description[i] = "L6"
         /\ Len(payment.plas.pla_l6) = 1
         /\ Len(payment.plas.pla_other) = 1

\* the value of practice_id + "_" + num of a payment
IdOf(payment) == payment.practice_id \o <<"_">> \o payment.num

\* the rows of the dataframe of the EFT
RowsOfEft(eft) == SelectSeq(df, LAMBDA r : r.EFT_NUM = eft.eft_num)

IsServiceRow(r) == r.Enc_Nbr # <<>> /\ r.CPT4 # <<>>

ServiceCount(payment) ==
    SumSeq([i \in 1..Len(payment.encounters) |-> Len(payment.encounters[i].services)])

\* C11: within every EFT no two payments have the same practice_id + "_" +
\* num, and the rows of the EFT that share a practice ID and a check number
\* are all in one payment: every such group of rows has exactly one payment,
\* which holds a service for every service row of the group
C11_PaymentIdUnique ==
    Created =>
        \A eft \in AllEfts :
            /\ \A i \in 1..Len(eft.payments) : \A j \in 1..Len(eft.payments) :
                 IdOf(eft.payments[i]) = IdOf(eft.payments[j]) => i = j
            /\ \A r \in Range(RowsOfEft(eft)) :
                 \E i \in 1..Len(eft.payments) :
                    /\ eft.payments[i].key = pmt_num_of(r)
                    /\ \A j \in 1..Len(eft.payments) :
                         eft.payments[j].key = pmt_num_of(r) => i = j
                    /\ ServiceCount(eft.payments[i]) =
                         Len(SelectSeq(RowsOfPayment(eft, eft.payments[i]), IsServiceRow))

\* what holds of C11: the same with the key the rows are grouped by in place
\* of practice_id + "_" + num
C11_PaymentKeyUnique ==
    Created =>
        \A eft \in AllEfts :
            /\ \A i \in 1..Len(eft.payments) : \A j \in 1..Len(eft.payments) :
                 eft.payments[i].key = eft.payments[j].key => i = j
            /\ \A r \in Range(RowsOfEft(eft)) :
                 \E i \in 1..Len(eft.payments) :
                    /\ eft.payments[i].key = pmt_num_of(r)
                    /\ ServiceCount(eft.payments[i]) =
                         Len(SelectSeq(RowsOfPayment(eft, eft.payments[i]), IsServiceRow))

\* the rows of the group of the encounter
RowsOfEncounter(eft, payment, enc) ==
    SelectSeq(RowsOfPayment(eft, payment),
              LAMBDA r : r.Enc_Nbr # <<>> /\ r.Enc_Nbr \o <<"_">> \o r.Clm_Sts_Cod = enc.key)

\* C12: the services of an encounter are, in row order, one service for each
\* row of the encounter's group with a non-blank CPT4 and none for a row with
\* a blank CPT4; every service has a non-blank cpt4
C12_ServiceIffCpt4 ==
    Created =>
        \A eft \in AllEfts : \A payment \in Range(eft.payments) :
            \A enc \in Range(payment.encounters) :
                LET with_cpt4 == SelectSeq(RowsOfEncounter(eft, payment, enc),
                                           LAMBDA r : r.CPT4 # <<>>)
                IN /\ Len(enc.services) = Len(with_cpt4)
                   /\ \A i \in 1..Len(with_cpt4) :
                        /\ enc.services[i].cpt4 = with_cpt4[i].CPT4
                        /\ enc.services[i].bill_amt = with_cpt4[i].Bill_Amt
                   /\ \A svc \in Range(enc.services) : svc.cpt4 # <<>>

\* C12 witness: an encounter whose group has a row with a CPT4 and a row
\* without has one service
C12_Witness ==
    /\ pc = "created"
    /\ \E eft \in AllEfts : \E payment \in Range(eft.payments) :
         \E enc \in Range(payment.encounters) :
            /\ \E r \in Range(RowsOfEncounter(eft, payment, enc)) : r.CPT4 = <<>>
            /\ \E r \in Range(RowsOfEncounter(eft, payment, enc)) : r.CPT4 # <<>>
            /\ Len(enc.services) = 1

\* what a PLA row adds to a sum: the amount extracted from its description,
\* nothing when there is none
Contribution(r) ==
    IF extract_pla_amount(r.Description).found
    THEN extract_pla_amount(r.Description).cents ELSE 0

\* C13: pla_other_amts is the sum of the amounts extracted from the
\* descriptions of the payment's PLA rows that do not meet Condition B and
\* pla_l6_amts the sum over its Condition B rows, a row without an amount
\* adding nothing; a payment with the single PLA row "Provider Level
\* Adjustment found: $12.50" has pla_other_amts 12.50 and pla_l6_amts 0
C13_PlaSums ==
    Created =>
        \A eft \in AllEfts : \A payment \in Range(eft.payments) :
            LET rows == RowsOfPayment(eft, payment)
                l6_rows == SelectSeq(rows, ClaimConditionB)
                other_rows == SelectSeq(rows,
                    LAMBDA r : ClaimConditionA(r) /\ ~ClaimConditionB(r))
            IN /\ payment.pla_l6_amts =
                    SumSeq([i \in 1..Len(l6_rows) |-> Contribution(l6_rows[i])])
               /\ payment.pla_other_amts =
                    SumSeq([i \in 1..Len(other_rows) |-> Contribution(other_rows[i])])
               /\ (/\ Len(l6_rows) = 0
                   /\ Len(other_rows) = 1
                   /\ other_rows[1].Description = <<PLA_TEXT, " ", "found:", " ", "$12.50">>)
                  => (payment.pla_other_amts = 1250 /\ payment.pla_l6_amts = 0)

\* C13 witness: a payment with an Other PLA row of $12.50 and an L6 row
\* without an amount has the sums 12.50 and 0
C13_Witness ==
    /\ pc = "created"
    /\ \E eft \in AllEfts : \E payment \in Range(eft.payments) :
         /\ \E r \in Range(RowsOfPayment(eft, payment)) :
              ClaimConditionB(r) /\ ~extract_pla_amount(r.Description).found
         /\ \E r \in Range(RowsOfPayment(eft, payment)) :
              ClaimConditionA(r) /\ Contribution(r) = 1250
         /\ payment.pla_other_amts = 1250
         /\ payment.pla_l6_amts = 0
         /\ Len(payment.plas.pla_l6) = 1

\* two amounts are added up
C13_TwoAmountsAdded ==
    /\ pc = "created"
    /\ \E payment \in AllPayments : payment.pla_other_amts = 1250 + 3503

HasFileColumn(rows) == \A r \in Range(rows) : "File" \in DOMAIN r

\* the non-empty File values of the rows, in row order
NonEmptyFiles(rows) ==
    IF HasFileColumn(rows)
    THEN SelectSeq([i \in 1..Len(rows) |-> rows[i].File], LAMBDA f : f # <<>>)
    ELSE <<>>

\* the underscore-separated parts of the first non-empty File value
FirstFileParts(rows) == Split(NonEmptyFiles(rows)[1], "_")

AmountUnreadable(rows) ==
    \/ ~HasFileColumn(rows)
    \/ NonEmptyFiles(rows) = <<>>
    \/ Len(FirstFileParts(rows)) < 6
    \/ ~ParseFloat(FirstFileParts(rows)[3]).ok

\* C14: every group of rows of an EFT has its Payment, whatever its File
\* values; the amt of the Payment is 0 when the rows have no File column, no
\* non-empty File value, a first File value of fewer than 6 parts or a third
\* part that is no number, and otherwise the number in the third part of
\* the first non-empty File value
C14_AmountNeverFails ==
    Created =>
        \A eft \in AllEfts :
            /\ \A r \in Range(RowsOfEft(eft)) :
                 \E payment \in Range(eft.payments) : payment.key = pmt_num_of(r)
            /\ \A payment \in Range(eft.payments) :
                 LET rows == RowsOfPayment(eft, payment) IN
                 IF AmountUnreadable(rows) THEN payment.amt = 0
                 ELSE payment.amt = ParseFloat(FirstFileParts(rows)[3]).cents

\* C14 witness: a payment whose first row has a blank File value and whose
\* second row names 100.00 has amt 100.00
C14_Witness ==
    /\ pc = "created"
    /\ \E eft \in AllEfts : \E payment \in Range(eft.payments) :
         LET rows == RowsOfPayment(eft, payment) IN
         /\ Len(rows) >= 2
         /\ HasFileColumn(rows)
         /\ rows[1].File = <<>>
         /\ ~AmountUnreadable(rows)
         /\ payment.amt = 10000

\* each way of failing is met: no File column, no File value, five parts, no
\* number
C14_NoFileColumnReached ==
    /\ pc = "created"
    /\ \E eft \in AllEfts : \E payment \in Range(eft.payments) :
         ~HasFileColumn(RowsOfPayment(eft, payment)) /\ payment.amt = 0

C14_FivePartsReached ==
    /\ pc = "created"
    /\ \E eft \in AllEfts : \E payment \in Range(eft.payments) :
         LET rows == RowsOfPayment(eft, payment) IN
         /\ HasFileColumn(rows) /\ NonEmptyFiles(rows) # <<>>
         /\ Len(FirstFileParts(rows)) = 5
         /\ payment.amt = 0

C14_NoNumberReached ==
    /\ pc = "created"
    /\ \E eft \in AllEfts : \E payment \in Range(eft.payments) :
         LET rows == RowsOfPayment(eft, payment) IN
         /\ HasFileColumn(rows) /\ NonEmptyFiles(rows) # <<>>
         /\ Len(FirstFileParts(rows)) = 6
         /\ FirstFileParts(rows)[3] = <<"abc">>
         /\ payment.amt = 0

\* C15: classifying a second time changes nothing: tag_encounters on the
\* classified data object leaves every encounter's tags and every payment's
\* encs_to_check as they are, and the following tag_payments every status
\* and is_split
C15_ClassificationIdempotent ==
    [][(pc \in {"pmt_tagged", "enc_retagged"} /\ pc' \in {"enc_retagged", "pmt_retagged"})
         => data_object' = data_object]_vars

\* C15 witness: after the second classification, a split EFT with a payment
\* that has encounters to check and one that has none
C15_Witness ==
    /\ pc = "pmt_retagged"
    /\ \E eft \in AllEfts :
         /\ eft.is_split
         /\ \E payment \in Range(eft.payments) :
              payment.encs_to_check # <<>> /\ payment.status # <<>>
         /\ \E payment \in Range(eft.payments) :
              payment.encs_to_check = <<>> /\ payment.status # <<>>

\* the classified data object of a run on the table: steps 4 to 6
Classified(rows, payer_default) ==
    tag_payments(tag_encounters(create_data_object(
        remove_missing_encounter_efts(rows, find_missing_encounter_efts(rows)),
        payer_default)))

\* the tables with the rows of the table in another order
Reorderings(rows) ==
    {[i \in 1..Len(rows) |-> rows[perm[i]]] :
        perm \in {f \in [1..Len(rows) -> 1..Len(rows)] :
                    \A i, j \in 1..Len(rows) : f[i] = f[j] => i = j}}

\* two classified data objects agree on the tag set of every encounter and
\* the status of every payment
SameClassification(dobj1, dobj2) ==
    \A eft1 \in Range(dobj1) :
        \E eft2 \in Range(dobj2) :
            /\ eft2.eft_num = eft1.eft_num
            /\ \A payment1 \in Range(eft1.payments) :
                 \E payment2 \in Range(eft2.payments) :
                    /\ payment2.key = payment1.key
                    /\ payment2.status = payment1.status
                    /\ \A enc1 \in Range(payment1.encounters) :
                         \E enc2 \in Range(payment2.encounters) :
                            /\ enc2.key = enc1.key
                            /\ Range(enc2.tags) = Range(enc1.tags)

\* C16: a run on the same rows in another order gives every encounter the
\* same tag set and every payment the same status
C16_OrderIndependent ==
    pc = "pmt_tagged" =>
        \A other \in Reorderings(file_rows) :
            /\ SameClassification(data_object, Classified(other, payer_name))
            /\ SameClassification(Classified(other, payer_name), data_object)

\* what holds of C16: the same for the tables whose rows name at most one
\* payer folder per EFT
C16_OrderIndependentForOnePayer ==
    (/\ pc = "pmt_tagged"
     /\ \A r1, r2 \in Range(file_rows) :
          (r1.EFT_NUM = r2.EFT_NUM /\ r1.PAYER_FOLDER # <<>> /\ r2.PAYER_FOLDER # <<>>)
             => r1.PAYER_FOLDER = r2.PAYER_FOLDER) =>
        \A other \in Reorderings(file_rows) :
            /\ SameClassification(data_object, Classified(other, payer_name))
            /\ SameClassification(Classified(other, payer_name), data_object)

\* the data object without what tag_encounters writes
WithoutTagging(dobj) ==
    [e \in 1..Len(dobj) |->
       [dobj[e] EXCEPT
          !.payments = [p \in 1..Len(dobj[e].payments) |->
             [dobj[e].payments[p] EXCEPT
                !.encs_to_check = <<>>,
                !.encounters = [i \in 1..Len(dobj[e].payments[p].encounters) |->
                                  [dobj[e].payments[p].encounters[i] EXCEPT !.tags = <<>>]]]]]]

\* the data object without what tag_payments writes
WithoutStatus(dobj) ==
    [e \in 1..Len(dobj) |->
       [dobj[e] EXCEPT
          !.is_split = FALSE,
          !.payments = [p \in 1..Len(dobj[e].payments) |->
                          [dobj[e].payments[p] EXCEPT !.status = <<>>]]]]

\* C17: tag_encounters changes nothing of the data object but the
\* encounters' tags and the payments' encs_to_check, tag_payments nothing
\* but is_split and the payments' status, and analytics nothing at all; no
\* stage changes the dataframe or the list of excluded EFTs
C17_StagesKeepEarlierResults ==
    [][/\ (pc = "created" /\ pc' = "enc_tagged")
            => WithoutTagging(data_object') = WithoutTagging(data_object)
       /\ (pc = "enc_tagged" /\ pc' = "pmt_tagged")
            => WithoutStatus(data_object') = WithoutStatus(data_object)
       /\ (pc = "pmt_tagged" /\ pc' = "analyzed") => data_object' = data_object
       /\ pc \in {"created", "enc_tagged", "pmt_tagged"}
            => (df' = df /\ missing_encounter_efts' = missing_encounter_efts)]_vars

\* C17 witness: after analytics, a payment with PLAs and PLA sums, an
\* encounter with tags and services, encounters to check and a status
C17_Witness ==
    /\ pc = "analyzed"
    /\ \E eft \in AllEfts : \E payment \in Range(eft.payments) :
         /\ payment.plas.pla_other # <<>>
         /\ payment.pla_other_amts = 1250
         /\ payment.encs_to_check # <<>>
         /\ payment.status # <<>>
         /\ \E enc \in Range(payment.encounters) : enc.tags # <<>> /\ enc.services # <<>>

PaymentStatuses ==
    {<<"Immediate", " ", "Post">>, <<"PLA", " ", "Only">>, <<"Mixed", " ", "Post">>,
     <<"Quick", " ", "Post">>, <<"Full", " ", "Post">>, <<"Unknown">>}

\* the order of the stages; "failed" ends the run
StageOrder ==
    {<<"start", "loaded">>, <<"loaded", "created">>, <<"created", "enc_tagged">>,
     <<"enc_tagged", "pmt_tagged">>, <<"pmt_tagged", "analyzed">>, <<"analyzed", "done">>}
    \cup {<<st, "failed">> :
            st \in {"start", "loaded", "created", "enc_tagged", "pmt_tagged", "analyzed"}}

\* encs_to_check has been set: it has one entry for each encounter with tags
EncsToCheckSet(payment) ==
    /\ {d.key : d \in Range(payment.encs_to_check)} =
         {enc.key : enc \in {x \in Range(payment.encounters) : x.tags # <<>>}}
    /\ \A d \in Range(payment.encs_to_check) : d.types # <<>>

\* C18: the stages run in the order creation, encounter tagging, payment
\* tagging, analytics; when payment tagging starts encs_to_check is set for
\* every payment; when analytics starts every payment has one of the six
\* statuses and every EFT its is_split; after a stage raises no stage runs
C18_StagesInOrder ==
    /\ [][pc' # pc => <<pc, pc'>> \in StageOrder]_vars
    /\ [][pc = "failed" => UNCHANGED vars]_vars
    /\ [](pc = "enc_tagged" => \A payment \in AllPayments : EncsToCheckSet(payment))
    /\ [](pc = "pmt_tagged" =>
            /\ \A payment \in AllPayments : payment.status \in PaymentStatuses
            /\ \A eft \in AllEfts : eft.is_split = (Len(eft.payments) > 1))

\* C18 witness: analytics is about to start on a split EFT whose payments
\* have a status, one of them with encounters to check
C18_Witness ==
    /\ pc = "pmt_tagged"
    /\ \E eft \in AllEfts :
         /\ eft.is_split
         /\ \A payment \in Range(eft.payments) : payment.status \in PaymentStatuses
         /\ \E payment \in Range(eft.payments) : payment.encs_to_check # <<>>

\* a run that a stage ended after the encounters were tagged
C18_FailedReached ==
    /\ pc = "failed"
    /\ \E payment \in AllPayments : payment.encs_to_check # <<>> /\ payment.status = <<>>

\* the entries of an analytics list for a payment
EntriesFor(list, eft, payment) ==
    {i \in 1..Len(list) : /\ list[i].eft_num = eft.eft_num
                          /\ list[i].practice_id = payment.practice_id
                          /\ list[i].payment_num = payment.num}

NoPlasCase(payment) ==
    /\ payment.status = MIXED_POST
    /\ Len(payment.plas.pla_l6) = 0
    /\ Len(payment.plas.pla_other) = 0

L6OnlyCase(payment) ==
    /\ payment.status = MIXED_POST
    /\ Len(payment.plas.pla_l6) > 0
    /\ Len(payment.plas.pla_other) = 0

\* the two lists hold one entry for each payment of efts that is in the
\* list's case, and none for the other payments of efts
ListsCover(efts) ==
    \A eft \in efts : \A payment \in Range(eft.payments) :
        /\ Cardinality(EntriesFor(analytics_results.mixed_post_no_plas, eft, payment)) =
             (IF NoPlasCase(payment) THEN 1 ELSE 0)
        /\ Cardinality(EntriesFor(analytics_results.mixed_post_l6_only, eft, payment)) =
             (IF L6OnlyCase(payment) THEN 1 ELSE 0)

\* no payment is in both lists, and the summary counts are the list lengths
ListsDisjointAndCounted ==
    /\ \A i \in 1..Len(analytics_results.mixed_post_no_plas) :
         \A j \in 1..Len(analytics_results.mixed_post_l6_only) :
            LET a == analytics_results.mixed_post_no_plas[i]
                b == analytics_results.mixed_post_l6_only[j]
            IN <<a.eft_num, a.practice_id, a.payment_num>> #
                 <<b.eft_num, b.practice_id, b.payment_num>>
    /\ analytics_results.summary.mixed_post_no_plas_count =
         Len(analytics_results.mixed_post_no_plas)
    /\ analytics_results.summary.mixed_post_l6_only_count =
         Len(analytics_results.mixed_post_l6_only)

\* C20 as stated: after analyze_mixed_post_payments the two lists hold one
\* entry for every Mixed Post payment of the hierarchy in the list's case
C20_EveryMixedPostListed ==
    analytics_results # <<>> => ListsCover(AllEfts) /\ ListsDisjointAndCounted

\* C20, amended: after analyze_mixed_post_payments mixed_post_no_plas holds
\* exactly one entry for every Mixed Post payment without PLAs of a not-split
\* EFT and mixed_post_l6_only one for every Mixed Post payment with L6 PLAs
\* only of a not-split EFT; payments of split EFTs are in neither list; the
\* lists share no payment and the summary counts are the list lengths
C20_MixedPostOfNotSplitListed ==
    analytics_results # <<>> =>
        /\ ListsCover({eft \in AllEfts : ~eft.is_split})
        /\ \A eft \in {x \in AllEfts : x.is_split} : \A payment \in Range(eft.payments) :
              /\ EntriesFor(analytics_results.mixed_post_no_plas, eft, payment) = {}
              /\ EntriesFor(analytics_results.mixed_post_l6_only, eft, payment) = {}
        /\ Len(analytics_results.mixed_post_no_plas) + Len(analytics_results.mixed_post_l6_only)
             = Cardinality({eft \in AllEfts : ~eft.is_split /\
                              \E payment \in Range(eft.payments) :
                                 NoPlasCase(payment) \/ L6OnlyCase(payment)})
        /\ ListsDisjointAndCounted

\* C20 witness: the Mixed Post payment with an L6 PLA only of a not-split EFT,
\* listed in mixed_post_l6_only
C20_Witness ==
    /\ analytics_results # <<>>
    /\ \E eft \in AllEfts : \E payment \in Range(eft.payments) :
         /\ ~eft.is_split
         /\ L6OnlyCase(payment)
         /\ EntriesFor(analytics_results.mixed_post_l6_only, eft, payment) # {}

\* the Mixed Post payment without PLAs of a not-split EFT, listed
C20_NoPlasReached ==
    /\ analytics_results # <<>>
    /\ \E eft \in AllEfts : \E payment \in Range(eft.payments) :
         /\ ~eft.is_split
         /\ NoPlasCase(payment)
         /\ EntriesFor(analytics_results.mixed_post_no_plas, eft, payment) # {}

\* a Mixed Post payment without PLAs of a split EFT, in no list
C20_SplitMixedPostReached ==
    /\ analytics_results # <<>>
    /\ \E eft \in AllEfts : \E payment \in Range(eft.payments) :
         /\ eft.is_split
         /\ NoPlasCase(payment)
         /\ analytics_results.mixed_post_no_plas = <<>>

\* C19: the balanced payment of a split EFT gets the note "Balanced-Batch
\* Closed" exactly when every payment of that EFT is balanced: the decision
\* is the AND of the payments' is_balanced, and a balanced payment with an
\* unbalanced sibling never gets "Balanced-Batch Closed"
C19_SplitClosesWhenAllBalanced ==
    \A k \in DOMAIN posting_results :
        (posting_results[k] # NOT_HANDLED /\ Len(data_object[k[1]].payments) > 1) =>
            ((posting_results[k].note = "Balanced-Batch Closed")
               <=> (\A j \in SameEft(k) : is_balanced[j]))

\* C19 witness: a balanced payment of a split EFT with an unbalanced sibling,
\* handled and not closed
C19_Witness ==
    \E k \in DOMAIN posting_results :
        /\ Len(data_object[k[1]].payments) > 1
        /\ is_balanced[k]
        /\ \E j \in SameEft(k) : ~is_balanced[j]
        /\ posting_results[k].note = "Balanced-Batch Not Closed"

\* a split EFT all of whose payments are balanced, handled and closed
C19_AllBalancedClosed ==
    \E k \in DOMAIN posting_results :
        /\ Len(data_object[k[1]].payments) > 1
        /\ \A j \in SameEft(k) :
              is_balanced[j] /\ posting_results[j].note = "Balanced-Batch Closed"

\* the adjustment amount of a row, in cents: the amount written with the
\* code of its Reason Cd cell
RowAdjustmentCents(r) ==
    IF InSeq("-$20.00", r.Reason_Cd) THEN 2000 ELSE 0

\* the CPT4 codes of the status-22 encounters of the payment with the
\* encounter number
RecoupmentCpt4s(payment, encounter_num) ==
    cpt4s_of(SelectSeq(encounters_with_num(payment, encounter_num),
                       LAMBDA e : e.status = <<"22">>))

\* the service of row r is not status 22 and no description rule, Not Posted
\* rule or recoupment-CPT4 skip applies to it
ReachesAmountRules(payment, r) ==
    /\ r.CPT4 # <<>>
    /\ clean_clm_sts(r.Clm_Sts_Cod) # <<"22">>
    /\ description_tag(r.Description) = NONE
    /\ r.Posting_Sts # NOT_POSTED
    /\ r.CPT4 \notin RecoupmentCpt4s(payment, r.Enc_Nbr)
    /\ opposite_cpt4_of(r.CPT4) \notin RecoupmentCpt4s(payment, r.Enc_Nbr)

\* C21: after tag_encounters the encounter of a service row with Txn Status
\* "Appeal" and a non-zero adjustment amount that reaches the amount rules
\* has the tag appeal_has_adj
C21_AppealWithAdjTagged ==
    EncountersTagged =>
        \A eft \in AllEfts : \A payment \in Range(eft.payments) :
            \A enc \in Range(payment.encounters) :
                \A r \in Range(RowsOfEncounter(eft, payment, enc)) :
                    (/\ ReachesAmountRules(payment, r)
                     /\ r.Txn_Status = <<"Appeal">>
                     /\ RowAdjustmentCents(r) # 0)
                    => InSeq("appeal_has_adj", enc.tags)

\* no encounter ever has the tag appeal_has_adj
C21_AppealNeverTagged ==
    \A payment \in AllPayments : \A enc \in Range(payment.encounters) :
        ~InSeq("appeal_has_adj", enc.tags)

\* the reason and remark codes written in the row
RowCodes(r) == Range(r.Reason_Cd) \cup Range(r.Remark_Codes)

\* the service of row r is secondary and reaches the secondary rules
ReachesSecondaryRules(payment, r) ==
    /\ ReachesAmountRules(payment, r)
    /\ clean_clm_sts(r.Clm_Sts_Cod) \in {<<"2">>, <<"20">>}
    /\ r.Txn_Status # <<"Appeal">>
    /\ ~amounts_equal(r.Bill_Amt, <<"0">>)

\* the tag the secondary rules give for the codes of the row and the payer
SecondaryTagOf(r, payer) ==
    IF {"N408", "PR96"} \subseteq RowCodes(r) /\ RowCodes(r) \cap {"CO45", "OA23"} # {}
    THEN "secondary_n408_pr96"
    ELSE IF /\ RowCodes(r) \cap {"CO94", "OA94"} # {}
            /\ RowCodes(r) \cap {"CO45", "OA23"} # {}
            /\ "PR96" \in RowCodes(r)
    THEN "secondary_co94_oa94"
    ELSE IF payer \in MC_TRICARE_DSHS THEN "secondary_mc_tricare_dshs"
    ELSE NONE

\* C22: after tag_encounters the encounter of a secondary service row that
\* reaches the secondary rules has the tag the rules give for the row's
\* reason and remark codes: secondary_n408_pr96, else secondary_co94_oa94,
\* else secondary_mc_tricare_dshs for a Medicare, Tricare or DSHS payer
C22_SecondaryTagByCodes ==
    EncountersTagged =>
        \A eft \in AllEfts : \A payment \in Range(eft.payments) :
            \A enc \in Range(payment.encounters) :
                \A r \in Range(RowsOfEncounter(eft, payment, enc)) :
                    (ReachesSecondaryRules(payment, r) /\ SecondaryTagOf(r, eft.payer) # NONE)
                    => InSeq(SecondaryTagOf(r, eft.payer), enc.tags)

\* no encounter ever has one of the two tags of the code rules
C22_CodeTagsNeverGiven ==
    \A payment \in AllPayments : \A enc \in Range(payment.encounters) :
        ~InSeq("secondary_n408_pr96", enc.tags) /\ ~InSeq("secondary_co94_oa94", enc.tags)

\* the payer rule of C22 alone: a secondary service row that reaches the
\* secondary rules under a Medicare, Tricare or DSHS payer is tagged
\* secondary_mc_tricare_dshs
C22_PayerRule ==
    EncountersTagged =>
        \A eft \in AllEfts : \A payment \in Range(eft.payments) :
            \A enc \in Range(payment.encounters) :
                \A r \in Range(RowsOfEncounter(eft, payment, enc)) :
                    (ReachesSecondaryRules(payment, r) /\ eft.payer \in MC_TRICARE_DSHS)
                    => InSeq("secondary_mc_tricare_dshs", enc.tags)

\* the CPT4 codes of the primary, secondary and tertiary encounters of the
\* payment with the encounter number
OtherCpt4s(payment, encounter_num) ==
    cpt4s_of(SelectSeq(encounters_with_num(payment, encounter_num),
                       LAMBDA e : \/ e.status \in {<<"1">>, <<"19">>, <<"2">>, <<"20">>}
                                  \/ is_tertiary_status(e.status)))

\* the CPT4 codes of the encounter's services that got a tag
TaggedCpt4s(payment, enc) == UNION {t.cpt4s : t \in RecordedTypes(payment, enc)}

\* the services of the encounter with the CPT4
ServicesWith(enc, cpt4) == {svc \in Range(enc.services) : svc.cpt4 = cpt4}

\* no description rule and no Not Posted rule applies to the service
PastDescriptionRules(svc) ==
    description_tag(svc.description) = NONE /\ svc.posting_sts # NOT_POSTED

InPair(cpt4) == \E pair \in SERVICE_PAIRS : cpt4 = <<pair[1]>> \/ cpt4 = <<pair[2]>>

\* the other member of the pair of cpt4, read off the configured pairs
PairedWith(cpt4) ==
    {<<pair[2]>> : pair \in {q \in SERVICE_PAIRS : cpt4 = <<q[1]>>}}
    \cup {<<pair[1]>> : pair \in {q \in SERVICE_PAIRS : cpt4 = <<q[2]>>}}

\* C23: after tag_encounters a status-22 service past the description and
\* Not Posted rules whose CPT4 is in a service pair has no tag when the
\* paired CPT4 is among the primary, secondary and tertiary CPT4s of its
\* encounter number in the payment, whichever member of the pair it is and
\* also when its own CPT4 is among them
C23_PairedReversalNotTagged ==
    EncountersTagged =>
        \A payment \in AllPayments : \A enc \in Range(payment.encounters) :
            \A svc \in Range(enc.services) :
                (/\ svc.clm_sts = <<"22">>
                 /\ \A other \in ServicesWith(enc, svc.cpt4) : PastDescriptionRules(other)
                 /\ PairedWith(svc.cpt4) \cap OtherCpt4s(payment, enc.num) # {})
                => svc.cpt4 \notin TaggedCpt4s(payment, enc)

\* C23 witness: the second member of a pair reversed while the first member
\* and the reversed CPT4 itself are both among the primary CPT4s
C23_Witness ==
    /\ EncountersTagged
    /\ \E payment \in AllPayments : \E enc \in Range(payment.encounters) :
         \E svc \in Range(enc.services) :
            /\ svc.clm_sts = <<"22">>
            /\ svc.cpt4 = <<"99213">>
            /\ <<"99203">> \in OtherCpt4s(payment, enc.num)
            /\ <<"99213">> \in OtherCpt4s(payment, enc.num)
            /\ enc.tags = <<>>

\* the first member of a pair reversed while the second member is primary
C23_FirstMemberReached ==
    /\ EncountersTagged
    /\ \E payment \in AllPayments : \E enc \in Range(payment.encounters) :
         \E svc \in Range(enc.services) :
            /\ svc.clm_sts = <<"22">>
            /\ svc.cpt4 = <<"99203">>
            /\ <<"99213">> \in OtherCpt4s(payment, enc.num)
            /\ enc.tags = <<>>

\* C24: after tag_encounters a service with clm_sts other than 22, past the
\* description and Not Posted rules, has no tag when its CPT4 or the paired
\* CPT4 is the CPT4 of a service of a status-22 encounter with the same
\* encounter number in the payment
C24_RecoupedServiceNotTagged ==
    EncountersTagged =>
        \A payment \in AllPayments : \A enc \in Range(payment.encounters) :
            \A svc \in Range(enc.services) :
                (/\ svc.clm_sts # <<"22">>
                 /\ \A other \in ServicesWith(enc, svc.cpt4) :
                       PastDescriptionRules(other) /\ other.clm_sts # <<"22">>
                 /\ ({svc.cpt4} \cup PairedWith(svc.cpt4))
                      \cap RecoupmentCpt4s(payment, enc.num) # {})
                => svc.cpt4 \notin TaggedCpt4s(payment, enc)

\* C24 witness: a tertiary service whose paired CPT4 is reversed in the same
\* encounter number, with no tag
C24_Witness ==
    /\ EncountersTagged
    /\ \E payment \in AllPayments : \E enc \in Range(payment.encounters) :
         \E svc \in Range(enc.services) :
            /\ svc.clm_sts = <<"3">>
            /\ svc.cpt4 = <<"99203">>
            /\ RecoupmentCpt4s(payment, enc.num) = {<<"99213">>}
            /\ enc.tags = <<>>

\* a primary service with a zero bill amount whose own CPT4 is reversed in
\* the same encounter number, with no tag
C24_OwnCpt4Reached ==
    /\ EncountersTagged
    /\ \E payment \in AllPayments : \E enc \in Range(payment.encounters) :
         \E svc \in Range(enc.services) :
            /\ svc.clm_sts = <<"1">>
            /\ svc.bill_amt = <<"0.00">>
            /\ svc.cpt4 \in RecoupmentCpt4s(payment, enc.num)
            /\ enc.tags = <<>>

\* a tertiary service whose CPT4 is reversed under another encounter number
\* only, tagged tertiary
C24_OtherEncounterTagged ==
    /\ EncountersTagged
    /\ \E payment \in AllPayments : \E enc \in Range(payment.encounters) :
         /\ enc.status = <<"3">>
         /\ enc.tags = <<"tertiary">>
         /\ \E other \in Range(payment.encounters) :
              other.num # enc.num /\ other.status = <<"22">>
                 /\ cpt4s_of(<<other>>) \cap cpt4s_of(<<enc>>) # {}

\* the tags of the services of the encounter, NONE left out
ServiceTagSet(eft, payment, enc) ==
    Range(service_tags(payment, enc, eft.payer)) \ {NONE}

\* the CPT4 codes of the services of the encounter that got the tag
Cpt4sTagged(eft, payment, enc, tag) ==
    LET tags == service_tags(payment, enc, eft.payer)
    IN {enc.services[j].cpt4 : j \in {i \in 1..Len(tags) : tags[i] = tag}}

\* C25: after tag_encounters the encs_to_check of every payment has one
\* entry for each of its encounters with a tagged service and none for the
\* others; the types of an entry map every tag of the encounter's services
\* to the set of CPT4 codes of the services with that tag, and the
\* encounter's tags are the keys of types
C25_EncsToCheckExact ==
    EncountersTagged =>
        \A eft \in AllEfts : \A payment \in Range(eft.payments) :
            /\ \A i, j \in 1..Len(payment.encs_to_check) :
                  payment.encs_to_check[i].key = payment.encs_to_check[j].key => i = j
            /\ {d.key : d \in Range(payment.encs_to_check)} =
                 {enc.key : enc \in {x \in Range(payment.encounters) :
                                       ServiceTagSet(eft, payment, x) # {}}}
            /\ \A enc \in Range(payment.encounters) :
                  /\ {t.tag : t \in RecordedTypes(payment, enc)} =
                       ServiceTagSet(eft, payment, enc)
                  /\ \A t \in RecordedTypes(payment, enc) :
                        t.cpt4s = Cpt4sTagged(eft, payment, enc, t.tag)
                  /\ Range(enc.tags) = ServiceTagSet(eft, payment, enc)
                  /\ Len(enc.tags) = Cardinality(ServiceTagSet(eft, payment, enc))
                  /\ \A d \in Range(payment.encs_to_check) :
                        d.key = enc.key =>
                           enc.tags = [k \in 1..Len(d.types) |-> d.types[k].tag]

\* C25 witness: a payment with one encounter to check, under one tag, and
\* with an encounter that is not to be checked
C25_Witness ==
    /\ EncountersTagged
    /\ \E payment \in AllPayments :
         /\ \E d \in Range(payment.encs_to_check) : Len(d.types) = 1
         /\ \E enc \in Range(payment.encounters) :
              /\ enc.tags = <<>>
              /\ \A d \in Range(payment.encs_to_check) : d.key # enc.key
         /\ Len(payment.encs_to_check) = 1

\* an encounter with two tags
C25_TwoTagsReached ==
    /\ EncountersTagged
    /\ \E payment \in AllPayments : \E d \in Range(payment.encs_to_check) :
         Len(d.types) = 2

\* an encounter with two services of different CPT4 under one tag
C25_TwoCpt4sReached ==
    /\ EncountersTagged
    /\ \E payment \in AllPayments : \E d \in Range(payment.encs_to_check) :
         \E k \in 1..Len(d.types) : Cardinality(d.types[k].cpt4s) = 2

\* r is a row of one of the encounter groups of the payment
InEncounterGroup(eft, payment, r) ==
    \E enc \in Range(payment.encounters) :
        r \in Range(RowsOfEncounter(eft, payment, enc))

\* C26: within a payment no row is both a PLA row (Condition A or B) and a
\* row of an encounter group, and no encounter has a blank encounter number
C26_PlaAndEncounterRowsApart ==
    Created =>
        \A eft \in AllEfts : \A payment \in Range(eft.payments) :
            /\ \A r \in Range(RowsOfPayment(eft, payment)) :
                  ~((ConditionA(r) \/ ConditionB(r)) /\ InEncounterGroup(eft, payment, r))
            /\ \A enc \in Range(payment.encounters) : enc.num # <<>>

\* the same for the rows of Condition A alone
C26_ConditionARowsApart ==
    Created =>
        \A eft \in AllEfts : \A payment \in Range(eft.payments) :
            /\ \A r \in Range(RowsOfPayment(eft, payment)) :
                  ~(ConditionA(r) /\ InEncounterGroup(eft, payment, r))
            /\ \A enc \in Range(payment.encounters) : enc.num # <<>>

\* a Condition B row that is a PLA of the payment and the only row of an
\* encounter of the payment
C26_ConditionBRowInBoth ==
    /\ Created
    /\ \E eft \in AllEfts : \E payment \in Range(eft.payments) :
         \E r \in Range(RowsOfPayment(eft, payment)) :
            /\ ConditionB(r)
            /\ Len(payment.plas.pla_l6) = 1
            /\ \E enc \in Range(payment.encounters) :
                  RowsOfEncounter(eft, payment, enc) = <<r>>

\* C27: after tag_payments a payment is Unknown exactly when it has a PLA,
\* encounters to check and no tag of the not-posted set; a payment without
\* PLAs or without encounters to check has one of the five named statuses
C27_UnknownExactly ==
    PaymentsTagged =>
        \A payment \in AllPayments :
            /\ (payment.status = <<"Unknown">>) <=>
                 (/\ HasPlas(payment)
                  /\ payment.encs_to_check # <<>>
                  /\ TagsToCheck(payment) \cap
                       {"enc_payer_not_found", "multiple_to_one", "other_not_posted",
                        "svc_no_match_clm", "chg_mismatch_cpt4"} = {})
            /\ (~HasPlas(payment) \/ payment.encs_to_check = <<>>) =>
                 payment.status \in PaymentStatuses \ {<<"Unknown">>}

\* C27 witness: an Unknown payment, with a PLA and a tertiary encounter
C27_Witness ==
    /\ PaymentsTagged
    /\ \E payment \in AllPayments :
         /\ payment.status = <<"Unknown">>
         /\ HasPlas(payment)
         /\ TagsToCheck(payment) = {"tertiary"}

\* a payment with a PLA and a not-posted tag, Mixed Post
C27_PlaMixedPostReached ==
    /\ PaymentsTagged
    /\ \E payment \in AllPayments :
         /\ payment.status = <<"Mixed", " ", "Post">>
         /\ HasPlas(payment)

\* the encounters to check of an EFT, summed over its payments
EncsToCheckOf(eft) ==
    SumSeq([i \in 1..Len(eft.payments) |-> Len(eft.payments[i].encs_to_check)])

\* the positions in the data object of the EFTs that are split (or are not)
EftsWhere(split) == {e \in 1..Len(data_object) : data_object[e].is_split = split}

\* the largest count of the EFTs at the positions; 0 without positions
MaxCount(positions) ==
    IF positions = {} THEN 0
    ELSE CHOOSE c \in {EncsToCheckOf(data_object[e]) : e \in positions} :
            \A e \in positions : EncsToCheckOf(data_object[e]) <= c

\* the first position with the largest count
FirstWithMax(positions) ==
    CHOOSE e \in positions :
        /\ EncsToCheckOf(data_object[e]) = MaxCount(positions)
        /\ \A f \in positions : EncsToCheckOf(data_object[f]) = MaxCount(positions) => e <= f

\* found is None when every count is 0, and else the first of the EFTs at
\* the positions with the largest count
IsFirstMax(found, positions) ==
    IF MaxCount(positions) = 0 THEN found = <<>>
    ELSE /\ Len(found) = 1
         /\ found[1].count = MaxCount(positions)
         /\ found[1].info.eft_num = data_object[FirstWithMax(positions)].eft_num

\* C28: after analyze_mixed_post_payments not_split_single_payment is the
\* payment of the first non-split EFT with the largest encs_to_check count
\* and split_single_eft the first split EFT with the largest count summed
\* over its payments; each is None when every such count is 0
C28_MaxEncounters ==
    analytics_results # <<>> =>
        LET found == analytics_results.max_encounters_analysis
        IN /\ IsFirstMax(found.not_split_single_payment, EftsWhere(FALSE))
           /\ IsFirstMax(found.split_single_eft, EftsWhere(TRUE))
           /\ found.not_split_single_payment # <<>> =>
                 /\ found.not_split_single_payment[1].info.practice_id =
                      data_object[FirstWithMax(EftsWhere(FALSE))].payments[1].practice_id
                 /\ found.not_split_single_payment[1].info.payment_num =
                      data_object[FirstWithMax(EftsWhere(FALSE))].payments[1].num

\* C28 witness: two non-split EFTs, the second with the larger count, found
C28_Witness ==
    /\ analytics_results # <<>>
    /\ Len(data_object) = 2
    /\ EftsWhere(FALSE) = {1, 2}
    /\ EncsToCheckOf(data_object[1]) = 1
    /\ EncsToCheckOf(data_object[2]) = 2
    /\ analytics_results.max_encounters_analysis.not_split_single_payment[1].info.eft_num
         = data_object[2].eft_num

\* two non-split EFTs with the same count: the first is kept
C28_TieReached ==
    /\ analytics_results # <<>>
    /\ EftsWhere(FALSE) = {1, 2}
    /\ EncsToCheckOf(data_object[1]) = 1
    /\ EncsToCheckOf(data_object[2]) = 1
    /\ analytics_results.max_encounters_analysis.not_split_single_payment[1].info.eft_num
         = data_object[1].eft_num

\* two split EFTs, the second with the larger sum, found
C28_SplitReached ==
    /\ analytics_results # <<>>
    /\ EftsWhere(TRUE) = {1, 2}
    /\ EncsToCheckOf(data_object[1]) = 1
    /\ EncsToCheckOf(data_object[2]) = 2
    /\ analytics_results.max_encounters_analysis.split_single_eft[1].info.eft_num
         = data_object[2].eft_num

\* EFTs without encounters to check: None for both
C28_NoneReached ==
    /\ analytics_results # <<>>
    /\ data_object # <<>>
    /\ analytics_results.max_encounters_analysis.not_split_single_payment = <<>>
    /\ analytics_results.max_encounters_analysis.split_single_eft = <<>>

\* the check numbers of the table given to the scrub step
ChkNbrs == {scrub_input[i].Chk_Nbr : i \in 1..Len(scrub_input)}

\* the check has exactly one L6 PLA row, and its extracted amount is the sum
\* of the amounts of the check's interest rows
AmountsAgree(chk_nbr) ==
    LET plas == l6_pla_rows_of(scrub_input, chk_nbr)
        interests == interest_rows_of(scrub_input, chk_nbr)
    IN /\ Len(plas) = 1
       /\ interests # <<>>
       /\ scrub_amount(scrub_input[plas[1]].Description).found
       /\ \A k \in 1..Len(interests) : scrub_amount(scrub_input[interests[k]].Description).found
       /\ scrub_amount(scrub_input[plas[1]].Description).cents =
            SumSeq([k \in 1..Len(interests) |->
                      scrub_amount(scrub_input[interests[k]].Description).cents])

RowsOfChk(rows, chk_nbr) == SelectSeq(rows, LAMBDA r : r.Chk_Nbr = chk_nbr)

\* C29: process_interest_and_pla_rows ends without error; for a check whose
\* one L6 PLA amount equals the sum of its interest amounts the interest
\* rows are gone and the PLA row has the encounter and policy number of a
\* row of the check, and the rows of every other check are unchanged
C29_InterestMerged ==
    pc \in {"scrubbed", "scrub_failed"} =>
        /\ pc = "scrubbed"
        /\ \A chk_nbr \in ChkNbrs :
              IF AmountsAgree(chk_nbr)
              THEN /\ interest_rows_of(scrub_df, chk_nbr) = <<>>
                   /\ \E r \in Range(RowsOfChk(scrub_df, chk_nbr)) :
                         /\ r.Enc_Nbr # <<>>
                         /\ \E x \in Range(RowsOfChk(scrub_input, chk_nbr)) :
                               x.Enc_Nbr = r.Enc_Nbr /\ x.Pol_Nbr = r.Pol_Nbr
              ELSE RowsOfChk(scrub_df, chk_nbr) = RowsOfChk(scrub_input, chk_nbr)

\* the scrub step raises exactly when the amounts of some check agree, and
\* then no interest row has been removed
C29_AgreeingCheckRaises ==
    pc \in {"scrubbed", "scrub_failed"} =>
        /\ (pc = "scrub_failed") <=> (\E chk_nbr \in ChkNbrs : AmountsAgree(chk_nbr))
        /\ Len(scrub_df) = Len(scrub_input)

\* without a check whose amounts agree the table is left as it was
C29_OthersUnchanged ==
    pc = "scrubbed" => scrub_df = scrub_input

\* a check with two interest rows that sum to its PLA amount, and the step
\* has raised
C29_TwoInterestRowsReached ==
    /\ pc = "scrub_failed"
    /\ \E chk_nbr \in ChkNbrs :
         AmountsAgree(chk_nbr) /\ Len(interest_rows_of(scrub_input, chk_nbr)) = 2

\* the CPT4 sets service_tags hands to the classifier for an encounter
SetsOf(payment, enc) ==
    LET encs(S) == cpt4s_of(SelectSeq(encounters_with_num(payment, enc.num),
                                      LAMBDA e : e.status \in S))
        tertiary == cpt4s_of(SelectSeq(encounters_with_num(payment, enc.num),
                                       LAMBDA e : e.status # <<"22">>
                                                  /\ is_tertiary_status(e.status)))
    IN <<encs({<<"1">>, <<"19">>}), encs({<<"2">>, <<"20">>}), tertiary, encs({<<"22">>})>>

\* the CPT4 sets the comparison runs over: those of the encounter, and every
\* choice of sets that hold the CPT4 of the service or nothing (the two
\* classifiers only ask whether a CPT4 is in a set)
SetChoices(payment, enc, svc) ==
    {SetsOf(payment, enc)}
    \cup {<<p, s, t, r>> : p \in SUBSET {Strip(svc.cpt4)}, s \in SUBSET {Strip(svc.cpt4)},
                           t \in SUBSET {Strip(svc.cpt4)}, r \in SUBSET {Strip(svc.cpt4)}}

AgreePayers == {<<"Aetna">>, <<"Medicare">>, <<"Tricare">>}

\* the services the later additions do not apply to
OldRulesOnly(svc) ==
    /\ Strip(svc.description) # <<"Charge mismatch on CPT4.">>
    /\ \A pair \in SERVICE_PAIRS : Strip(svc.cpt4) \notin {<<pair[1]>>, <<pair[2]>>}

\* C30: for a service whose description is not "Charge mismatch on CPT4." and
\* whose CPT4 is in no service pair, EncounterReviewAnalyzer._analyze_service
\* and EncounterTagger._analyze_service give the same tag (or both none) for
\* the same payer and the same four CPT4 sets
C30_ClassifiersAgree ==
    Created =>
        \A payment \in AllPayments : \A enc \in Range(payment.encounters) :
            \A svc \in Range(enc.services) :
                OldRulesOnly(svc) =>
                    \A payer \in AgreePayers : \A c \in SetChoices(payment, enc, svc) :
                        review_analyze_service(svc, payer, c[1], c[2], c[3], c[4])
                          = analyze_service(svc, payer, c[1], c[2], c[3], c[4])

\* the encounters are tagged, and a tertiary service with a CPT4 of no pair
\* got no tag because the same CPT4 is being recouped in the encounter
C30_Witness ==
    /\ EncountersTagged
    /\ \E payment \in AllPayments : \E enc \in Range(payment.encounters) :
         \E svc \in Range(enc.services) :
            /\ OldRulesOnly(svc)
            /\ is_tertiary_status(svc.clm_sts)
            /\ svc.cpt4 \in SetsOf(payment, enc)[4]
            /\ enc.tags = <<>>

\* a service of the old rules that both classifiers tag
C30_TaggedReached ==
    /\ EncountersTagged
    /\ \E payment \in AllPayments : \E enc \in Range(payment.encounters) :
         \E svc \in Range(enc.services) :
            /\ OldRulesOnly(svc)
            /\ LET c == SetsOf(payment, enc)
               IN review_analyze_service(svc, payer_name, c[1], c[2], c[3], c[4])
                    \in {"tertiary", "22_with_123", "secondary_mc_tricare_dshs"}

\* where a later addition applies the two classifiers differ: a service with
\* the description "Charge mismatch on CPT4."
C30_MismatchDiffers ==
    /\ EncountersTagged
    /\ \E payment \in AllPayments : \E enc \in Range(payment.encounters) :
         \E svc \in Range(enc.services) :
            /\ Strip(svc.description) = <<"Charge mismatch on CPT4.">>
            /\ LET c == SetsOf(payment, enc)
               IN review_analyze_service(svc, payer_name, c[1], c[2], c[3], c[4])
                    # analyze_service(svc, payer_name, c[1], c[2], c[3], c[4])

====
